---- MODULE Spec2Model ----
(***************************************************************************)
(* The rack decoder of backend/abletonRackAnalyzer.py as a state machine:  *)
(* one decode of one input file, from decompression to the returned        *)
(* rack_info dictionary.  XML elements are records, Python dictionaries    *)
(* are functions whose DOMAIN is the set of keys they hold, Python lists   *)
(* are sequences.                                                          *)
(***************************************************************************)
EXTENDS Integers, Sequences, FiniteSets, TLC

(***************************************************************************)
(* xml.etree.ElementTree elements.  An element is a record                 *)
(*   [tag, value, children]                                                *)
(* where value is the "Value" attribute (NoValue when the attribute is     *)
(* absent: the only attribute the decoder reads) and children the child    *)
(* elements in document order.  None is Python's None.                     *)
(***************************************************************************)
NoValue == "#no-Value-attribute"

None == [tag |-> "#None", value |-> NoValue, children |-> <<>>]

E(tag, value, children) == [tag |-> tag, value |-> value, children |-> children]

\* Element.get("Value", default)
Get(e, default) == IF e.value = NoValue THEN default ELSE e.value

\* a comparison that takes an absent attribute for a match
GetEqualsOrMissing(e, s) == e.value = NoValue \/ e.value = s

\* Element.get("Value") == s  (None, the result for an absent attribute, equals no string)
GetEquals(e, s) == e.value # NoValue /\ e.value = s

\* a truth test that takes the empty string for a value
GetTruthyEmpty(e) == e.value # NoValue

\* bool(Element.get("Value")): None and "" are falsy
GetTruthy(e) == e.value # NoValue /\ e.value # ""

\* Element.findall(tag): the children carrying the tag, in document order
FindAll(e, tag) == SelectSeq(e.children, LAMBDA c : c.tag = tag)

\* the first element of a list of matches, None when there is none
First(matches) == IF matches = <<>> THEN None ELSE Head(matches)

\* Element.find(tag): the first child carrying the tag
Find(e, tag) == First(FindAll(e, tag))

\* Element.find("a/b"): the first b child, over the a children in document order
RECURSIVE ChildrenTagged(_, _)
ChildrenTagged(es, tag) ==
    IF es = <<>> THEN <<>>
    ELSE FindAll(Head(es), tag) \o ChildrenTagged(Tail(es), tag)

FindPath2(e, a, b) == First(ChildrenTagged(FindAll(e, a), b))

\* Element.iter() without the element itself: the descendants in document order
RECURSIVE IterSeq(_)
IterSeq(es) ==
    IF es = <<>> THEN <<>>
    ELSE <<Head(es)>> \o IterSeq(Head(es).children) \o IterSeq(Tail(es))

\* Element.findall(".//tag")
FindAllDesc(e, tag) == SelectSeq(IterSeq(e.children), LAMBDA c : c.tag = tag)

\* Element.find(".//tag")
FindDesc(e, tag) == First(FindAllDesc(e, tag))

\* Element.find(".//a/b"): the b children of the a descendants, a in document order
FindDescPath2(e, a, b) == First(ChildrenTagged(FindAllDesc(e, a), b))

(***************************************************************************)
(* Python dictionaries and lists.                                          *)
(***************************************************************************)
\* d[k] = v
Put(d, k, v) == [x \in (DOMAIN d) \cup {k} |-> IF x = k THEN v ELSE d[x]]

Has(d, k) == k \in DOMAIN d

\* d.get(k, default)
DictGet(d, k, default) == IF k \in DOMAIN d THEN d[k] ELSE default

\* d.setdefault(k, []).append(v)
SetDefaultAppend(d, k, v) == Put(d, k, Append(DictGet(d, k, <<>>), v))

\* f"{prefix}{n}"
Fmt(prefix, n) == prefix \o ToString(n)

(***************************************************************************)
(* The static tables.                                                      *)
(***************************************************************************)
RackTypes == <<"AudioEffectGroupDevice", "InstrumentGroupDevice", "MidiEffectGroupDevice">>

RackTypeSet == {RackTypes[i] : i \in DOMAIN RackTypes}

branch_type_map ==
    [ AudioEffectGroupDevice |-> "AudioEffectBranchPreset",
      InstrumentGroupDevice  |-> "InstrumentBranchPreset",
      MidiEffectGroupDevice  |-> "MidiEffectBranchPreset" ]

\* branch_type_map.get(rack_type): NoBranchType is the None of an unmapped type
NoBranchType == "#None"

\* a lookup that answers the audio branch tag for every rack type
get_branch_preset_typeAudio(rack_type) ==
    IF rack_type \in DOMAIN branch_type_map THEN "AudioEffectBranchPreset" ELSE NoBranchType

get_branch_preset_type(rack_type) == DictGet(branch_type_map, rack_type, NoBranchType)

device_type_map ==
    [ AlignDelay |-> "Align Delay",
      Amp |-> "Amp",
      AudioEffectGroupDevice |-> "Audio Effect Rack",
      AutoFilter |-> "Auto Filter",
      AutoPan |-> "Auto Pan",
      AutoShift |-> "Auto Shift",
      BeatRepeat |-> "Beat Repeat",
      Cabinet |-> "Cabinet",
      ChannelEq |-> "Channel EQ",
      Chorus |-> "Chorus-Ensemble",
      ChromaticChorus |-> "Chorus-Ensemble",
      Compressor2 |-> "Compressor",
      Corpus |-> "Corpus",
      Delay |-> "Delay",
      DrumBuss |-> "Drum Buss",
      DynamicTube |-> "Dynamic Tube",
      Tube |-> "Dynamic Tube",
      Echo |-> "Echo",
      EnvelopeFollower |-> "Envelope Follower",
      FilterEQ3 |-> "EQ Three",
      Eq3 |-> "EQ Three",
      Eq8 |-> "EQ Eight",
      Erosion |-> "Erosion",
      ExternalAudioEffect |-> "External Audio Effect",
      FilterDelay |-> "Filter Delay",
      Gate |-> "Gate",
      GlueCompressor |-> "Glue Compressor",
      GrainDelay |-> "Grain Delay",
      HybridReverb |-> "Hybrid Reverb",
      LFO |-> "LFO",
      Limiter |-> "Limiter",
      Looper |-> "Looper",
      MultibandDynamics |-> "Multiband Dynamics",
      Overdrive |-> "Overdrive",
      Pedal |-> "Pedal",
      Phaser |-> "Phaser",
      PhaserFlanger |-> "Phaser-Flanger",
      Flanger |-> "Flanger",
      Redux |-> "Redux",
      Resonators |-> "Resonators",
      Reverb |-> "Reverb",
      Roar |-> "Roar",
      Saturator |-> "Saturator",
      Shaper |-> "Shaper",
      Shifter |-> "Shifter",
      FrequencyShifter |-> "Frequency Shifter",
      Frequency |-> "Frequency Shifter",
      SpectralResonator |-> "Spectral Resonator",
      SpectralTime |-> "Spectral Time",
      Spectrum |-> "Spectrum",
      Tuner |-> "Tuner",
      Utility |-> "Utility",
      VinylDistortion |-> "Vinyl Distortion",
      Vocoder |-> "Vocoder",
      ConvolutionReverb |-> "Convolution Reverb",
      ConvolutionReverbPro |-> "Convolution Reverb Pro",
      InMeasurementDevice |-> "IR Measurement Device",
      ColorLimiter |-> "Color Limiter",
      GatedDelay |-> "Gated Delay",
      PitchHack |-> "Pitch Hack",
      ReEnveloper |-> "Re-Enveloper",
      SpectralBlur |-> "Spectral Blur",
      VectorDelay |-> "Vector Delay",
      VectorFade |-> "Vector Fade",
      ArrangementLooper |-> "Arrangement Looper",
      Performer |-> "Performer",
      Prearranger |-> "Prearranger",
      VectorGrain |-> "Vector Grain",
      SurroundPanner |-> "Surround Panner",
      AnalogDevice |-> "Analog",
      Collision |-> "Collision",
      DrumRack |-> "Drum Rack",
      InstrumentRack |-> "Instrument Rack",
      Electric |-> "Electric",
      ExternalInstrument |-> "External Instrument",
      GranulatorIII |-> "Granulator III",
      InstrumentImpulse |-> "Impulse",
      Meld |-> "Meld",
      Operator |-> "Operator",
      Poli |-> "Poli",
      Sampler |-> "Sampler",
      Simpler |-> "Simpler",
      Tension |-> "Tension",
      Wavetable |-> "Wavetable",
      Bass |-> "Bass",
      Drift |-> "Drift",
      DrumSampler |-> "Drum Sampler",
      DSClang |-> "DS Clang",
      DSClap |-> "DS Clap",
      DSCymbal |-> "DS Cymbal",
      DSFM |-> "DS FM",
      DSHH |-> "DS HH",
      DSKick |-> "DS Kick",
      DSSnare |-> "DS Snare",
      DSTom |-> "DS Tom",
      InstrumentGroupDevice |-> "Instrument Rack",
      MidiEffectGroupDevice |-> "MIDI Effect Rack",
      DrumGroupDevice |-> "Drum Rack",
      Treee |-> "Tree Tone",
      VectorFM |-> "Vector FM",
      Arpeggiator |-> "Arpeggiator",
      BouncyNotes |-> "Bouncy Notes",
      CCControl |-> "CC Control",
      Chord |-> "Chord",
      EnvelopeMidi |-> "Envelope MIDI",
      ExpressionControl |-> "Expression Control",
      ExpressiveChords |-> "Expressive Chords",
      MelodicSteps |-> "Melodic Steps",
      Microtuner |-> "Microtuner",
      MidiEffectRack |-> "MIDI Effect Rack",
      MidiMonitor |-> "MIDI Monitor",
      MPEControl |-> "MPE Control",
      NoteEcho |-> "Note Echo",
      NoteLength |-> "Note Length",
      Pitch |-> "Pitch",
      Random |-> "Random",
      RhythmicSteps |-> "Rhythmic Steps",
      Scale |-> "Scale",
      ShaperMidi |-> "Shaper MIDI",
      StepSequencer |-> "SQ Sequencer",
      StepArp |-> "Step Arp",
      Velocity |-> "Velocity" ]

\* device_type_map.get(device_type, device_type): an unknown tag maps to itself
MappedName(device_type) == DictGet(device_type_map, device_type, device_type)

(***************************************************************************)
(* Exceptions.  A function that can raise returns Ok(value) or Raise(exc). *)
(* The only exception a chain's decode can raise on a parsed tree is the   *)
(* interpreter's RecursionError: parse_device and parse_single_chain_branch*)
(* call each other once per level of rack nesting, and the interpreter     *)
(* stops a call chain deeper than its recursion limit.  RecursionLimit is  *)
(* that limit counted in levels of chain nesting (the top-level chains are *)
(* level 1), scaled down so that small trees reach it.                     *)
(***************************************************************************)
RecursionLimit == 2

Ok(v) == [raised |-> FALSE, val |-> v]

Raise(exc) == [raised |-> TRUE, exc |-> exc]

\* Python's None where a string is expected
NoneStr == "#None"

RECURSIVE parse_single_chain_branch(_, _, _)
RECURSIVE parse_device(_, _, _)
RECURSIVE ParseBranchList(_, _, _)
RECURSIVE ParseDeviceChildren(_, _, _)
RECURSIVE ParseDevicePresets(_, _)

\* for idx, branch_preset in enumerate(branches[idx0:], idx0):
\*     chain_info = parse_single_chain_branch(branch_preset, idx); nested_chains.append(chain_info)
ParseBranchList(branches, idx0, depth) ==
    IF idx0 >= Len(branches) THEN Ok(<<>>)
    ELSE LET chain == parse_single_chain_branch(branches[idx0 + 1], idx0, depth)
         IN  IF chain.raised THEN chain
             ELSE LET rest == ParseBranchList(branches, idx0 + 1, depth)
                  IN  IF rest.raised THEN rest ELSE Ok(<<chain.val>> \o rest.val)

\* str.lower(), on the mapped names and on the names the inputs use
LowerTable ==
    ("" :> "")
    @@ ("Align Delay" :> "align delay")
    @@ ("Amp" :> "amp")
    @@ ("Audio Effect Rack" :> "audio effect rack")
    @@ ("Auto Filter" :> "auto filter")
    @@ ("Auto Pan" :> "auto pan")
    @@ ("Auto Shift" :> "auto shift")
    @@ ("Beat Repeat" :> "beat repeat")
    @@ ("Cabinet" :> "cabinet")
    @@ ("Channel EQ" :> "channel eq")
    @@ ("Chorus-Ensemble" :> "chorus-ensemble")
    @@ ("Compressor" :> "compressor")
    @@ ("Corpus" :> "corpus")
    @@ ("Delay" :> "delay")
    @@ ("Drum Buss" :> "drum buss")
    @@ ("Dynamic Tube" :> "dynamic tube")
    @@ ("Echo" :> "echo")
    @@ ("Envelope Follower" :> "envelope follower")
    @@ ("EQ Three" :> "eq three")
    @@ ("EQ Eight" :> "eq eight")
    @@ ("Erosion" :> "erosion")
    @@ ("External Audio Effect" :> "external audio effect")
    @@ ("Filter Delay" :> "filter delay")
    @@ ("Gate" :> "gate")
    @@ ("Glue Compressor" :> "glue compressor")
    @@ ("Grain Delay" :> "grain delay")
    @@ ("Hybrid Reverb" :> "hybrid reverb")
    @@ ("LFO" :> "lfo")
    @@ ("Limiter" :> "limiter")
    @@ ("Looper" :> "looper")
    @@ ("Multiband Dynamics" :> "multiband dynamics")
    @@ ("Overdrive" :> "overdrive")
    @@ ("Pedal" :> "pedal")
    @@ ("Phaser" :> "phaser")
    @@ ("Phaser-Flanger" :> "phaser-flanger")
    @@ ("Flanger" :> "flanger")
    @@ ("Redux" :> "redux")
    @@ ("Resonators" :> "resonators")
    @@ ("Reverb" :> "reverb")
    @@ ("Roar" :> "roar")
    @@ ("Saturator" :> "saturator")
    @@ ("Shaper" :> "shaper")
    @@ ("Shifter" :> "shifter")
    @@ ("Frequency Shifter" :> "frequency shifter")
    @@ ("Spectral Resonator" :> "spectral resonator")
    @@ ("Spectral Time" :> "spectral time")
    @@ ("Spectrum" :> "spectrum")
    @@ ("Tuner" :> "tuner")
    @@ ("Utility" :> "utility")
    @@ ("Vinyl Distortion" :> "vinyl distortion")
    @@ ("Vocoder" :> "vocoder")
    @@ ("Convolution Reverb" :> "convolution reverb")
    @@ ("Convolution Reverb Pro" :> "convolution reverb pro")
    @@ ("IR Measurement Device" :> "ir measurement device")
    @@ ("Color Limiter" :> "color limiter")
    @@ ("Gated Delay" :> "gated delay")
    @@ ("Pitch Hack" :> "pitch hack")
    @@ ("Re-Enveloper" :> "re-enveloper")
    @@ ("Spectral Blur" :> "spectral blur")
    @@ ("Vector Delay" :> "vector delay")
    @@ ("Vector Fade" :> "vector fade")
    @@ ("Arrangement Looper" :> "arrangement looper")
    @@ ("Performer" :> "performer")
    @@ ("Prearranger" :> "prearranger")
    @@ ("Vector Grain" :> "vector grain")
    @@ ("Surround Panner" :> "surround panner")
    @@ ("Analog" :> "analog")
    @@ ("Collision" :> "collision")
    @@ ("Drum Rack" :> "drum rack")
    @@ ("Instrument Rack" :> "instrument rack")
    @@ ("Electric" :> "electric")
    @@ ("External Instrument" :> "external instrument")
    @@ ("Granulator III" :> "granulator iii")
    @@ ("Impulse" :> "impulse")
    @@ ("Meld" :> "meld")
    @@ ("Operator" :> "operator")
    @@ ("Poli" :> "poli")
    @@ ("Sampler" :> "sampler")
    @@ ("Simpler" :> "simpler")
    @@ ("Tension" :> "tension")
    @@ ("Wavetable" :> "wavetable")
    @@ ("Bass" :> "bass")
    @@ ("Drift" :> "drift")
    @@ ("Drum Sampler" :> "drum sampler")
    @@ ("DS Clang" :> "ds clang")
    @@ ("DS Clap" :> "ds clap")
    @@ ("DS Cymbal" :> "ds cymbal")
    @@ ("DS FM" :> "ds fm")
    @@ ("DS HH" :> "ds hh")
    @@ ("DS Kick" :> "ds kick")
    @@ ("DS Snare" :> "ds snare")
    @@ ("DS Tom" :> "ds tom")
    @@ ("MIDI Effect Rack" :> "midi effect rack")
    @@ ("Tree Tone" :> "tree tone")
    @@ ("Vector FM" :> "vector fm")
    @@ ("Arpeggiator" :> "arpeggiator")
    @@ ("Bouncy Notes" :> "bouncy notes")
    @@ ("CC Control" :> "cc control")
    @@ ("Chord" :> "chord")
    @@ ("Envelope MIDI" :> "envelope midi")
    @@ ("Expression Control" :> "expression control")
    @@ ("Expressive Chords" :> "expressive chords")
    @@ ("Melodic Steps" :> "melodic steps")
    @@ ("Microtuner" :> "microtuner")
    @@ ("MIDI Monitor" :> "midi monitor")
    @@ ("MPE Control" :> "mpe control")
    @@ ("Note Echo" :> "note echo")
    @@ ("Note Length" :> "note length")
    @@ ("Pitch" :> "pitch")
    @@ ("Random" :> "random")
    @@ ("Rhythmic Steps" :> "rhythmic steps")
    @@ ("Scale" :> "scale")
    @@ ("Shaper MIDI" :> "shaper midi")
    @@ ("SQ Sequencer" :> "sq sequencer")
    @@ ("Step Arp" :> "step arp")
    @@ ("Velocity" :> "velocity")
    @@ ("MysteryDevice" :> "mysterydevice")
    @@ ("My Verb" :> "my verb")
    @@ ("REVERB" :> "reverb")
    @@ ("reverb" :> "reverb")
    @@ ("mysterydevice" :> "mysterydevice")
    @@ ("Audio Effect rack" :> "audio effect rack")

Lower(s) == LowerTable[s]

\* the comparison of line 330 without lower()
PresetNameDiffersExact(original_device_name, custom_name) ==
    original_device_name # custom_name

\* str.lower() of the custom name and of the mapped name
PresetNameDiffers(original_device_name, custom_name) ==
    Lower(original_device_name) # Lower(custom_name)

\* the body of parse_device up to the nested-rack test: lines 313-336
DeviceInfo(device_elem) ==
    LET device_type == device_elem.tag
        user_name   == Find(device_elem, "UserName")
        custom_name == IF user_name # None /\ GetTruthy(user_name)
                       THEN user_name.value ELSE NoneStr
        base        == [type  |-> device_type,
                        name  |-> IF custom_name # NoneStr THEN custom_name
                                  ELSE MappedName(device_type),
                        is_on |-> TRUE]
        named       == IF custom_name # NoneStr
                          /\ PresetNameDiffers(MappedName(device_type), custom_name)
                       THEN Put(base, "preset_name", MappedName(device_type))
                       ELSE base
        on_elem     == FindPath2(device_elem, "On", "Manual")
    IN  IF on_elem # None
        THEN [named EXCEPT !["is_on"] = GetEquals(on_elem, "true")]
        ELSE named

\* the test of line 339: is this device decoded as a nested rack
IsNestedRack(device_type, parent_preset) ==
    device_type = "AudioEffectGroupDevice" /\ parent_preset # None

\* a nested walk that takes the first branch collection anywhere in the preset
NestedBranchesAnywhere(parent_preset) ==
    LET branch_presets == FindDesc(parent_preset, "BranchPresets")
    IN  IF branch_presets # None
        THEN FindAll(branch_presets, "AudioEffectBranchPreset")
        ELSE <<>>

\* a nested walk that comes back to where it is: the one branch it returns holds the
\* preset it was asked about
NestedBranchesAround(parent_preset) ==
    <<E("AudioEffectBranchPreset", NoValue, <<E("DevicePresets", NoValue, <<parent_preset>>)>>)>>

\* the branch elements of a nested rack: lines 340-345
NestedBranches(parent_preset) ==
    IF parent_preset.tag = "GroupDevicePreset"
    THEN LET branch_presets == Find(parent_preset, "BranchPresets")
         IN  IF branch_presets # None
             THEN FindAll(branch_presets, "AudioEffectBranchPreset")
             ELSE <<>>
    ELSE <<>>

\* a decode of the device that keeps a failure of its nested chains to itself
parse_deviceContained(device_elem, parent_preset, depth) ==
    LET device_info == DeviceInfo(device_elem)
    IN  IF IsNestedRack(device_elem.tag, parent_preset)
        THEN LET nested == ParseBranchList(NestedBranches(parent_preset), 0, depth + 1)
             IN  IF nested.raised THEN Ok(Put(device_info, "chains", <<>>))
                 ELSE Ok(Put(device_info, "chains", nested.val))
        ELSE Ok(device_info)

parse_device(device_elem, parent_preset, depth) ==
    LET device_info == DeviceInfo(device_elem)
    IN  IF IsNestedRack(device_elem.tag, parent_preset)
        THEN LET nested == ParseBranchList(NestedBranches(parent_preset), 0, depth + 1)
             IN  IF nested.raised THEN nested
                 ELSE Ok(Put(device_info, "chains", nested.val))
        ELSE Ok(device_info)

\* for child in device: device_info = parse_device(child, device_preset); devices.append(device_info)
ParseDeviceChildren(children, device_preset, depth) ==
    IF children = <<>> THEN Ok(<<>>)
    ELSE LET d == parse_device(Head(children), device_preset, depth)
         IN  IF d.raised THEN d
             ELSE LET rest == ParseDeviceChildren(Tail(children), device_preset, depth)
                  IN  IF rest.raised THEN rest ELSE Ok(<<d.val>> \o rest.val)

\* for device_preset in device_presets: device = device_preset.find("Device") ...
ParseDevicePresets(presets, depth) ==
    IF presets = <<>> THEN Ok(<<>>)
    ELSE LET device == Find(Head(presets), "Device")
             here   == IF device # None
                       THEN ParseDeviceChildren(device.children, Head(presets), depth)
                       ELSE Ok(<<>>)
         IN  IF here.raised THEN here
             ELSE LET rest == ParseDevicePresets(Tail(presets), depth)
                  IN  IF rest.raised THEN rest ELSE Ok(here.val \o rest.val)

\* the default name counted from 0
ChainNameZeroBased(branch_preset, chain_index) ==
    LET name_elem == Find(branch_preset, "Name")
    IN  IF name_elem # None /\ Get(name_elem, "") # ""
        THEN Get(name_elem, "")
        ELSE Fmt("Chain ", chain_index)

\* the chain's name: lines 144 and 150-154
ChainName(branch_preset, chain_index) ==
    LET name_elem == Find(branch_preset, "Name")
    IN  IF name_elem # None /\ Get(name_elem, "") # ""
        THEN Get(name_elem, "")
        ELSE Fmt("Chain ", chain_index + 1)

\* the solo flag: lines 145 and 157-159
ChainSoloed(branch_preset) ==
    LET solo_elem == Find(branch_preset, "IsSoloed")
    IN  IF solo_elem # None THEN GetEquals(solo_elem, "true") ELSE FALSE

parse_single_chain_branch(branch_preset, chain_index, depth) ==
    IF depth > RecursionLimit THEN Raise("RecursionError")
    ELSE LET device_presets == Find(branch_preset, "DevicePresets")
             devices == IF device_presets # None
                        THEN ParseDevicePresets(device_presets.children, depth)
                        ELSE Ok(<<>>)
         IN  IF devices.raised THEN devices
             ELSE Ok([name      |-> ChainName(branch_preset, chain_index),
                      is_soloed |-> ChainSoloed(branch_preset),
                      devices   |-> devices.val])

(***************************************************************************)
(* Macro controls: lines 87-99.  A float is its value in thousandths;      *)
(* float() accepts the literals of FloatLiterals and raises ValueError on  *)
(* every other string of the inputs.                                       *)
(***************************************************************************)
NumMacros == 16

FloatLiterals == ("0" :> 0) @@ ("0.5" :> 500) @@ ("127" :> 127000)

float(s) == IF s \in DOMAIN FloatLiterals THEN Ok(FloatLiterals[s]) ELSE Raise("ValueError")

\* the synthesized default name of macro i
DefaultMacroName(i) == Fmt("Macro ", i + 1)

\* the loop body without the test of line 92: default names are kept too
MacroAtUnfiltered(main_device, i) ==
    LET macro_name_elem == Find(main_device, Fmt("MacroDisplayNames.", i))
    IN  IF macro_name_elem = None THEN Ok(<<>>)
        ELSE LET macro_control_elem ==
                     FindPath2(main_device, Fmt("MacroControls.", i), "Manual")
                 macro_value == IF macro_control_elem # None
                                THEN float(Get(macro_control_elem, "0"))
                                ELSE Ok(0)
             IN  IF macro_value.raised THEN macro_value
                 ELSE Ok(<<[name  |-> Get(macro_name_elem, DefaultMacroName(i)),
                            value |-> macro_value.val,
                            index |-> i]>>)

\* one pass of the loop body: the entries (none or one) it appends
MacroAt(main_device, i) ==
    LET macro_name_elem == Find(main_device, Fmt("MacroDisplayNames.", i))
    IN  IF macro_name_elem = None THEN Ok(<<>>)
        ELSE LET macro_name == Get(macro_name_elem, DefaultMacroName(i))
             IN  IF macro_name = DefaultMacroName(i) THEN Ok(<<>>)
                 ELSE LET macro_control_elem ==
                              FindPath2(main_device, Fmt("MacroControls.", i), "Manual")
                          macro_value == IF macro_control_elem # None
                                         THEN float(Get(macro_control_elem, "0"))
                                         ELSE Ok(0)
                      IN  IF macro_value.raised THEN macro_value
                          ELSE Ok(<<[name  |-> macro_name,
                                     value |-> macro_value.val,
                                     index |-> i]>>)

\* for i in range(i0, 16)
RECURSIVE ParseMacros(_, _)
ParseMacros(main_device, i0) ==
    IF i0 >= NumMacros THEN Ok(<<>>)
    ELSE LET here == MacroAt(main_device, i0)
         IN  IF here.raised THEN here
             ELSE LET rest == ParseMacros(main_device, i0 + 1)
                  IN  IF rest.raised THEN rest ELSE Ok(here.val \o rest.val)

(***************************************************************************)
(* Rack type detection: lines 22-39.                                       *)
(***************************************************************************)
\* what detection returns: the pair (rack_type, device)
Detected(rack_type, device) == [rack_type |-> rack_type, device |-> device]

NotDetected == Detected(NoneStr, None)

\* lines 24-31: the first rack-typed child of the first GroupDevicePreset's Device
PrimaryPath(xml_root) ==
    LET group_preset == FindDesc(xml_root, "GroupDevicePreset")
        device_container == IF group_preset # None THEN Find(group_preset, "Device") ELSE None
        typed == IF device_container # None
                 THEN SelectSeq(device_container.children, LAMBDA c : c.tag \in RackTypeSet)
                 ELSE <<>>
    IN  IF typed # <<>> THEN Detected(Head(typed).tag, Head(typed)) ELSE NotDetected

\* a search that takes the first element of any rack type, in document order
AlternatePathDocumentOrder(xml_root, k) ==
    LET typed == SelectSeq(IterSeq(xml_root.children), LAMBDA c : c.tag \in RackTypeSet)
    IN  IF typed # <<>> THEN Detected(Head(typed).tag, Head(typed)) ELSE NotDetected

\* lines 34-39: the rack types in their fixed order, each searched in the whole tree
RECURSIVE AlternatePath(_, _)
AlternatePath(xml_root, k) ==
    IF k > Len(RackTypes) THEN NotDetected
    ELSE LET device == FindDesc(xml_root, RackTypes[k])
         IN  IF device # None THEN Detected(RackTypes[k], device)
             ELSE AlternatePath(xml_root, k + 1)

\* detection by the primary path alone
detectPrimaryOnly(xml_root) == PrimaryPath(xml_root)

\* detection that searches the whole tree first
detectSearchFirst(xml_root) ==
    IF AlternatePath(xml_root, 1) # NotDetected THEN AlternatePath(xml_root, 1)
    ELSE PrimaryPath(xml_root)

detect_rack_type_and_device(xml_root) ==
    IF PrimaryPath(xml_root) # NotDetected THEN PrimaryPath(xml_root)
    ELSE AlternatePath(xml_root, 1)

(***************************************************************************)
(* The rack name: os.path.splitext(os.path.basename(filename))[0].  A path *)
(* is a sequence of characters.                                            *)
(***************************************************************************)
\* str.rfind(c): the last position of c, 0 when it does not occur
RECURSIVE RFind(_, _)
RFind(p, c) ==
    IF p = <<>> THEN 0
    ELSE IF p[Len(p)] = c THEN Len(p) ELSE RFind(SubSeq(p, 1, Len(p) - 1), c)

basename(p) == SubSeq(p, RFind(p, "/") + 1, Len(p))

\* genericpath._splitext: the root; a name of leading dots only has no extension
splitext_root(p) ==
    LET sepIndex == RFind(p, "/")
        dotIndex == RFind(p, ".")
    IN  IF dotIndex > sepIndex
           /\ \E k \in (sepIndex + 1)..(dotIndex - 1) : p[k] # "."
        THEN SubSeq(p, 1, dotIndex - 1)
        ELSE p

UnknownName == <<"U", "n", "k", "n", "o", "w", "n">>

\* line 53; a filename of None or "" is falsy
RackNameFromFile(filename) ==
    IF filename # <<>> THEN splitext_root(basename(filename)) ELSE UnknownName

(***************************************************************************)
(* The state: one decode of one input file.                                *)
(***************************************************************************)
VARIABLES
    file,        \* the input file: [gzip, wellformed, tree]
    filename,    \* the filename argument, a sequence of characters (<<>>: None)
    verbose,     \* the verbose argument
    pc,          \* where the decode is
    xml_root,    \* what decompress_and_parse_ableton_file returned
    rack_info,   \* the dictionary parse_chains_and_devices builds
    detected,    \* (rack_type, main_device)
    branches,    \* the branch elements the chain loop enumerates
    idx,         \* the chain loop's index
    result,      \* what parse_chains_and_devices returned (NoResult: nothing yet)
    raised,      \* the exception that left parse_chains_and_devices ("" for none)
    stdout,      \* what was printed, by whichever invocation
    other,       \* the frame of a second invocation while the first one runs (NoFrame: none)
    disk,        \* app.py: the temporary directories that exist
    temp_dirs,   \* app.py: the attribute app.temp_dirs, [hasattr, dict]
    requests     \* app.py: the requests received, each with its handler's locals

\* the state of the web application around the decoder
server == <<disk, temp_dirs, requests>>

vars == <<file, filename, verbose, pc, xml_root, rack_info, detected, branches, idx,
          result, raised, stdout, other, server>>

\* the application object before any handler has set the attribute
NoAttribute == [hasattr |-> FALSE, dict |-> <<>>]

\* a server that has received nothing
ServerIdle ==
    /\ disk = {}
    /\ temp_dirs = NoAttribute
    /\ requests = <<>>

\* no dictionary (yet)
NoResult == [none |-> TRUE]

\* no second invocation
NoFrame == [none |-> TRUE, frame |-> FALSE]

(***************************************************************************)
(* decompress_and_parse_ableton_file: lines 11-20.  gzip.open().read()     *)
(* raises on bytes that are not gzip, ET.fromstring on content that is not *)
(* well-formed; file.tree is what the content describes (for content that  *)
(* is not well-formed, the part before the error).                         *)
(***************************************************************************)
ReadAndParse(f) ==
    IF ~f.gzip THEN Raise("BadGzipFile")
    ELSE IF ~f.wellformed THEN Raise("ParseError")
    ELSE Ok(f.tree)

\* the decompressor handing out what was parsed before a parse error
DecompressKeepsPartialTree(f) == IF f.gzip THEN f.tree ELSE None

\* try: ... return root / except Exception as e: print(...); return None
decompress_and_parse_ableton_file(f) ==
    IF ReadAndParse(f).raised THEN None ELSE ReadAndParse(f).val

Decompress ==
    /\ pc = "start"
    /\ xml_root' = decompress_and_parse_ableton_file(file)
    /\ stdout' = IF ReadAndParse(file).raised
                 THEN Append(stdout, "Error: " \o ReadAndParse(file).exc)
                 ELSE stdout
    \* __main__, app.py: parse_chains_and_devices is called only with a root
    /\ pc' = IF xml_root' # None THEN "parse" ELSE "failed"
    /\ UNCHANGED <<server, other, file, filename, verbose, rack_info, detected, branches, idx,
                   result, raised>>

\* the dictionary named by the first UserName field of the tree, when there is one
InitialRackInfoFromUserName(name) ==
    LET user_name == FindDesc(xml_root, "UserName")
        rack_name == IF user_name # None /\ GetTruthy(user_name)
                     THEN <<user_name.value>> ELSE RackNameFromFile(name)
    IN  [rack_name      |-> rack_name,
         use_case       |-> rack_name,
         macro_controls |-> <<>>,
         chains         |-> <<>>]

(***************************************************************************)
(* parse_chains_and_devices: lines 50-139.                                 *)
(***************************************************************************)
\* lines 53-60
InitialRackInfo(name) ==
    [rack_name      |-> RackNameFromFile(name),
     use_case       |-> RackNameFromFile(name),
     macro_controls |-> <<>>,
     chains         |-> <<>>]

UnknownRackTypeError ==
    "Unknown rack type - unable to detect AudioEffectGroupDevice, InstrumentGroupDevice, or MidiEffectGroupDevice"

\* detection's result recorded without the error of line 75
AfterDetectionSilent(info, d) == Put(info, "rack_type", d.rack_type)

\* lines 69-82: the dictionary after detection
AfterDetection(info, d) ==
    LET typed == Put(info, "rack_type", d.rack_type)
    IN  IF d.rack_type = NoneStr
        THEN Put(typed, "parsing_errors", <<UnknownRackTypeError>>)
        ELSE IF d.device = None
        THEN Put(typed, "parsing_errors",
                 <<"Found rack type " \o d.rack_type \o " but could not locate main device element">>)
        ELSE typed

\* lines 50-82
Detect ==
    /\ pc = "parse"
    /\ detected' = detect_rack_type_and_device(xml_root)
    /\ rack_info' = AfterDetection(InitialRackInfo(filename), detected')
    /\ stdout' = stdout
                 \o (IF verbose THEN <<"Detected rack type: " \o detected'.rack_type>> ELSE <<>>)
                 \o (IF verbose /\ detected'.rack_type = NoneStr
                     THEN <<"Warning: Unable to detect rack type">>
                     ELSE IF verbose /\ detected'.device = None
                     THEN <<"Warning: could not find main device">>
                     ELSE <<>>)
    /\ IF detected'.rack_type = NoneStr \/ detected'.device = None
       THEN pc' = "done" /\ result' = rack_info'
       ELSE pc' = "macros" /\ result' = result
    /\ UNCHANGED <<server, other, file, filename, verbose, xml_root, branches, idx, raised>>

\* lines 87-99: the macro loop; a ValueError of float() leaves the function, and the
\* dictionary built so far is lost with its frame
Macros ==
    /\ pc = "macros"
    /\ LET macros == ParseMacros(detected.device, 0)
       IN  IF macros.raised
           THEN /\ raised' = macros.exc
                /\ pc' = "raised"
                /\ rack_info' = rack_info
           ELSE /\ raised' = raised
                /\ pc' = "branches"
                /\ rack_info' = [rack_info EXCEPT !["macro_controls"] = macros.val]
    /\ UNCHANGED <<server, other, file, filename, verbose, xml_root, detected, branches, idx, result, stdout>>

\* line 103
BranchPresetsOf(root) == FindDescPath2(root, "GroupDevicePreset", "BranchPresets")

\* line 115
NoChainsWarning(branch_preset_type) ==
    "No chains found - expected " \o branch_preset_type \o " elements"

NoBranchPresetsWarning == "No BranchPresets element found - rack may not contain chains"

\* lines 134-137: the dictionary when the chain collection is not walked
WithoutBranchPresets(info, branch_presets, verb) ==
    IF branch_presets = None /\ verb
    THEN SetDefaultAppend(info, "parsing_warnings", NoBranchPresetsWarning)
    ELSE info

\* the branch list taken without the warning of line 115
WithBranchListSilent(info, found, branch_preset_type) == info

\* lines 108-115: the dictionary once the branch elements are listed
WithBranchList(info, found, branch_preset_type) ==
    IF Len(found) = 0
    THEN SetDefaultAppend(info, "parsing_warnings", NoChainsWarning(branch_preset_type))
    ELSE info

\* lines 101-115 and 130-137: locate the chain collection and list its branch elements
FindBranches ==
    /\ pc = "branches"
    /\ LET branch_presets == BranchPresetsOf(xml_root)
           rack_type == detected.rack_type
           branch_preset_type == get_branch_preset_type(rack_type)
       IN  IF branch_presets # None /\ rack_type # NoneStr
           THEN IF branch_preset_type # NoBranchType
                THEN LET found == FindAll(branch_presets, branch_preset_type)
                     IN  /\ branches' = found
                         /\ rack_info' = WithBranchList(rack_info, found, branch_preset_type)
                         /\ stdout' = stdout
                              \o (IF verbose THEN <<Fmt("Found ", Len(found)) \o " " \o branch_preset_type \o " elements">> ELSE <<>>)
                              \o (IF verbose /\ Len(found) = 0 THEN <<"Warning: No " \o branch_preset_type \o " elements found">> ELSE <<>>)
                ELSE /\ branches' = <<>>
                     /\ rack_info' = SetDefaultAppend(rack_info, "parsing_errors",
                                        "Unknown branch preset type for rack type " \o rack_type)
                     /\ stdout' = IF verbose THEN Append(stdout, "Warning: Unknown branch preset type") ELSE stdout
           ELSE /\ branches' = <<>>
                /\ rack_info' = WithoutBranchPresets(rack_info, branch_presets, verbose)
                /\ stdout' = IF branch_presets = None /\ verbose
                             THEN Append(stdout, "Warning: No BranchPresets element found")
                             ELSE stdout
    /\ idx' = 0
    /\ pc' = "chains"
    /\ UNCHANGED <<server, other, file, filename, verbose, xml_root, detected, result, raised>>

\* str(e)
ExcMessage(exc) ==
    IF exc = "RecursionError" THEN "maximum recursion depth exceeded" ELSE exc

\* line 129
ChainErrorMessage(chain_index, exc) ==
    Fmt("Error parsing chain ", chain_index + 1) \o ": " \o ExcMessage(exc)

\* the loop body inserting the chain at the front of the list
AfterChainPrepends(info, chain, chain_index) ==
    IF chain.raised
    THEN SetDefaultAppend(info, "parsing_errors", ChainErrorMessage(chain_index, chain.exc))
    ELSE [info EXCEPT !["chains"] = <<chain.val>> \o @]

\* the loop body keeping a failed chain, with no devices, beside its error
AfterChainKeepsEmpty(info, chain, chain_index) ==
    IF chain.raised
    THEN SetDefaultAppend(
             [info EXCEPT !["chains"] =
                 Append(@, [name      |-> Fmt("Chain ", chain_index + 1),
                            is_soloed |-> FALSE,
                            devices   |-> <<>>])],
             "parsing_errors", ChainErrorMessage(chain_index, chain.exc))
    ELSE [info EXCEPT !["chains"] = Append(@, chain.val)]

\* lines 118-129: the dictionary after the loop body for one branch element
AfterChain(info, chain, chain_index) ==
    IF chain.raised
    THEN SetDefaultAppend(info, "parsing_errors", ChainErrorMessage(chain_index, chain.exc))
    ELSE [info EXCEPT !["chains"] = Append(@, chain.val)]

\* one pass of the chain loop without its try/except: the exception leaves the function
ParseChainUncaught ==
    /\ pc = "chains"
    /\ idx < Len(branches)
    /\ LET chain == parse_single_chain_branch(branches[idx + 1], idx, 1)
       IN  IF chain.raised
           THEN /\ raised' = chain.exc
                /\ pc' = "raised"
                /\ rack_info' = rack_info
           ELSE /\ raised' = raised
                /\ pc' = pc
                /\ rack_info' = [rack_info EXCEPT !["chains"] = Append(@, chain.val)]
    /\ idx' = idx + 1
    /\ UNCHANGED <<server, other, file, filename, verbose, xml_root, detected, branches, result, stdout>>

\* lines 117-129: one pass of the chain loop
ParseChain ==
    /\ pc = "chains"
    /\ idx < Len(branches)
    /\ LET chain == parse_single_chain_branch(branches[idx + 1], idx, 1)
       IN  /\ rack_info' = AfterChain(rack_info, chain, idx)
           /\ stdout' = IF chain.raised /\ verbose
                        THEN Append(stdout, Fmt("Error parsing chain ", idx + 1))
                        ELSE stdout
    /\ idx' = idx + 1
    /\ UNCHANGED <<server, other, file, filename, verbose, pc, xml_root, detected, branches, result, raised>>

\* line 139
Return ==
    /\ pc = "chains"
    /\ idx >= Len(branches)
    /\ result' = rack_info
    /\ pc' = "done"
    /\ UNCHANGED <<server, other, file, filename, verbose, xml_root, rack_info, detected, branches, idx,
                   raised, stdout>>

(***************************************************************************)
(* The inputs: trees of the schema family the decoder reads, and trees     *)
(* outside it.                                                             *)
(***************************************************************************)
\* bounds of the inputs
MaxBranches == 3

\* in the builders: the element is absent
Absent == "#no-element"

\* <tag Value="v"/>, <tag/> for v = NoValue, nothing for v = Absent
Field(tag, v) == IF v = Absent THEN <<>> ELSE <<E(tag, v, <<>>)>>

\* <outer><inner Value="v"/></outer>, nothing for v = Absent
Field2(outer, inner, v) ==
    IF v = Absent THEN <<>> ELSE <<E(outer, NoValue, Field(inner, v))>>

\* a device element with its optional UserName and On/Manual fields
Dev(tag, user_name, on) ==
    E(tag, NoValue, Field("UserName", user_name) \o Field2("On", "Manual", on))

\* a device preset: the Device wrapper, then the preset's other children
Preset(tag, devices, others) == E(tag, NoValue, <<E("Device", NoValue, devices)>> \o others)

BranchPresets(bs) == E("BranchPresets", NoValue, bs)

\* a branch element; presets = Absent for no DevicePresets child
Branch(tag, name, solo, presets) ==
    E(tag, NoValue,
      Field("Name", name) \o Field("IsSoloed", solo)
      \o (IF presets = Absent THEN <<>> ELSE <<E("DevicePresets", NoValue, presets)>>))

Root(children) == E("Ableton", NoValue, children)

\* a rack of one chain nested k levels deep: a GroupDevicePreset whose rack holds
\* one branch, which holds the next rack (k > 1) or a plain device
RECURSIVE NestSpine(_, _)
NestSpine(rack_type, k) ==
    Preset("GroupDevicePreset", <<Dev(rack_type, Absent, Absent)>>,
           <<BranchPresets(<<Branch(branch_type_map[rack_type], Absent, Absent,
                <<IF k > 1 THEN NestSpine(rack_type, k - 1)
                  ELSE Preset("AbletonDevicePreset", <<Dev("Reverb", Absent, "true")>>, <<>>)>>)>>)>>)

\* the branch elements the chain documents are built from
BranchVariants ==
    { Branch("AudioEffectBranchPreset", "Lead", "true",
             <<Preset("AbletonDevicePreset", <<Dev("Reverb", Absent, Absent)>>, <<>>)>>),
      Branch("AudioEffectBranchPreset", Absent, Absent, Absent),
      Branch("AudioEffectBranchPreset", "", "false",
             <<NestSpine("AudioEffectGroupDevice", RecursionLimit - 1),
               Preset("AbletonDevicePreset", <<Dev("MysteryDevice", "My Verb", "false")>>, <<>>)>>),
      \* nested one level deeper than the interpreter allows
      Branch("AudioEffectBranchPreset", "Deep", Absent,
             <<Preset("AbletonDevicePreset", <<Dev("Tube", Absent, Absent)>>, <<>>),
               NestSpine("AudioEffectGroupDevice", RecursionLimit)>>),
      Branch("InstrumentBranchPreset", "Keys", Absent,
             <<NestSpine("InstrumentGroupDevice", 1),
               Preset("AbletonDevicePreset", <<Dev("AudioEffectGroupDevice", Absent, Absent)>>, <<>>)>>),
      Branch("InstrumentBranchPreset", NoValue, "true",
             <<NestSpine("AudioEffectGroupDevice", RecursionLimit)>>),
      Branch("MidiEffectBranchPreset", "Arp", "false",
             <<NestSpine("MidiEffectGroupDevice", 1),
               Preset("AbletonDevicePreset", <<Dev("Arpeggiator", "REVERB", NoValue)>>, <<>>)>>) }

\* the sequences of at most n elements of S
RECURSIVE SeqsUpTo(_, _)
SeqsUpTo(S, n) ==
    IF n = 0 THEN {<<>>}
    ELSE LET shorter == SeqsUpTo(S, n - 1)
         IN  shorter \cup {Append(s, x) : s \in shorter, x \in S}

\* a rack document: the main device in a GroupDevicePreset, `others` beside it
RackDoc(main_device, others) ==
    Root(<<Preset("GroupDevicePreset", <<main_device>>, others)>>)

DefaultFilename == <<"r", ".", "a", "d", "g">>

Input(tree, name, verb) ==
    [file |-> [gzip |-> TRUE, wellformed |-> TRUE, tree |-> tree],
     filename |-> name, verbose |-> verb]

\* documents that vary the chain collection
ChainInputsOf(collections, verbs) ==
    { Input(RackDoc(E(rt, NoValue, <<>>), others), DefaultFilename, verb) :
        rt \in RackTypeSet, others \in collections, verb \in verbs }

\* no collection, or one of at most MaxBranches elements; the verbose flag varies
\* on the short ones
ChainInputs ==
    ChainInputsOf({<<>>} \cup {<<BranchPresets(bs)>> : bs \in SeqsUpTo(BranchVariants, 1)},
                  BOOLEAN)
    \cup ChainInputsOf({<<BranchPresets(bs)>> : bs \in SeqsUpTo(BranchVariants, MaxBranches)},
                       {FALSE})

\* the macro fields of one index: the display name and the control's value
MacroFields(i, name, value) ==
    Field(Fmt("MacroDisplayNames.", i), name)
    \o Field2(Fmt("MacroControls.", i), "Manual", value)

MacroNames == {Absent, NoValue, "Macro 1", "Macro 16", "Cutoff"}

MacroValues == {Absent, NoValue, "0.5", "127", "loud"}

\* documents that vary the macro fields of the first and the last index
MacroInputs ==
    { Input(RackDoc(E("AudioEffectGroupDevice", NoValue,
                      MacroFields(0, n0, v0) \o MacroFields(NumMacros - 1, n1, v1)),
                    <<BranchPresets(<<Branch("AudioEffectBranchPreset", "Lead", Absent, Absent)>>)>>),
            DefaultFilename, FALSE) :
        n0 \in MacroNames, v0 \in MacroValues, n1 \in MacroNames, v1 \in MacroValues }

SimpleBranch ==
    Branch("AudioEffectBranchPreset", "Lead", "true",
           <<Preset("AbletonDevicePreset", <<Dev("Reverb", Absent, Absent)>>, <<>>)>>)

SimpleMain(rack_type) == E(rack_type, NoValue, MacroFields(0, "Cutoff", "0.5"))

\* documents off the schema: no rack, a rack outside the primary path, several presets,
\* repeated and out-of-range macro fields
OddTrees ==
    { Root(<<>>),
      Root(<<E("GroupDevicePreset", NoValue, <<>>)>>),
      RackDoc(Dev("Reverb", Absent, Absent), <<BranchPresets(<<SimpleBranch>>)>>),
      Root(<<E("LiveSet", NoValue, <<SimpleMain("InstrumentGroupDevice")>>)>>),
      Root(<<E("LiveSet", NoValue, <<SimpleMain("MidiEffectGroupDevice")>>),
             E("LiveSet", NoValue, <<SimpleMain("AudioEffectGroupDevice")>>)>>),
      Root(<<Preset("GroupDevicePreset", <<Dev("Reverb", Absent, Absent)>>, <<>>),
             Preset("GroupDevicePreset", <<SimpleMain("AudioEffectGroupDevice")>>,
                    <<BranchPresets(<<SimpleBranch, SimpleBranch>>)>>)>>),
      Root(<<E("LiveSet", NoValue, <<SimpleMain("AudioEffectGroupDevice")>>),
             Preset("GroupDevicePreset", <<SimpleMain("InstrumentGroupDevice")>>,
                    <<BranchPresets(<<Branch("InstrumentBranchPreset", Absent, Absent, Absent)>>)>>)>>),
      Root(<<Preset("GroupDevicePreset", <<SimpleMain("AudioEffectGroupDevice")>>, <<>>),
             Preset("GroupDevicePreset", <<Dev("Reverb", Absent, Absent)>>,
                    <<BranchPresets(<<SimpleBranch>>)>>)>>),
      RackDoc(E("AudioEffectGroupDevice", NoValue,
                MacroFields(0, "Cutoff", "0.5") \o MacroFields(0, "Drive", "127")
                \o MacroFields(NumMacros, "Extra", "0.5")),
              <<BranchPresets(<<>>)>>) }

\* documents that try detection: the rack as the root element itself, a first preset
\* without a rack before a preset with one, racks of several categories outside any preset
DetectionTrees ==
    { E("AudioEffectGroupDevice", NoValue, <<>>),
      E("GroupDevicePreset", NoValue,
        <<E("Device", NoValue, <<SimpleMain("InstrumentGroupDevice")>>)>>),
      Root(<<Preset("GroupDevicePreset", <<Dev("Reverb", Absent, Absent)>>, <<>>),
             Preset("GroupDevicePreset", <<SimpleMain("InstrumentGroupDevice")>>,
                    <<BranchPresets(<<Branch("InstrumentBranchPreset", "Keys", Absent, Absent)>>)>>),
             E("LiveSet", NoValue, <<SimpleMain("AudioEffectGroupDevice")>>)>>),
      Root(<<E("LiveSet", NoValue, <<SimpleMain("MidiEffectGroupDevice")>>),
             E("LiveSet", NoValue, <<SimpleMain("InstrumentGroupDevice"),
                                     E("InstrumentGroupDevice", NoValue, <<>>)>>)>>),
      Root(<<E("GroupDevicePreset", NoValue,
               <<E("Device", NoValue, <<Dev("Reverb", Absent, Absent),
                                        SimpleMain("MidiEffectGroupDevice"),
                                        SimpleMain("AudioEffectGroupDevice")>>)>>)>>) }

OddInputs ==
    { Input(t, DefaultFilename, verb) : t \in OddTrees \cup DetectionTrees, verb \in BOOLEAN }

\* files that are not gzip, or whose content is not well-formed
FileInputs ==
    { [file |-> [gzip |-> g, wellformed |-> w, tree |-> t],
       filename |-> DefaultFilename, verbose |-> FALSE] :
        g \in BOOLEAN, w \in BOOLEAN,
        t \in {Root(<<>>), RackDoc(SimpleMain("AudioEffectGroupDevice"), <<>>)} }

Filenames ==
    { <<>>,
      <<"b", ".", "g">>,
      <<"d", "/", "b", ".", "g">>,
      <<"d", ".", "x", "/", "b">>,
      <<".", "g">>,
      <<"b", ".", "c", ".", "g">>,
      <<"d", "/">> }

\* the trees decoded under every filename: an ordinary rack, a rack whose main device
\* carries a user name, a tree without a rack
NameTrees ==
    { RackDoc(SimpleMain("AudioEffectGroupDevice"), <<BranchPresets(<<SimpleBranch>>)>>),
      RackDoc(E("InstrumentGroupDevice", NoValue, Field("UserName", "My Verb")),
              <<BranchPresets(<<>>)>>),
      Root(<<>>) }

NameInputs == { Input(t, name, FALSE) : t \in NameTrees, name \in Filenames }

\* the device elements whose tag, UserName and On/Manual fields vary
DeviceTags == {"Reverb", "Tube", "MysteryDevice"}

UserNames == {Absent, NoValue, "", "My Verb", "reverb", "REVERB", "mysterydevice"}

OnValues == {Absent, NoValue, "true", "false"}

DeviceInputs ==
    { Input(RackDoc(SimpleMain("AudioEffectGroupDevice"),
                    <<BranchPresets(<<Branch("AudioEffectBranchPreset", "Lead", Absent,
                         <<Preset("AbletonDevicePreset", <<Dev(tag, u, on)>>, <<>>)>>)>>)>>),
            DefaultFilename, FALSE) :
        tag \in DeviceTags, u \in UserNames, on \in OnValues }

\* a nested audio rack of two chains, the second one named and soloed
TwoChainRack ==
    Preset("GroupDevicePreset", <<Dev("AudioEffectGroupDevice", "My Verb", "false")>>,
           <<BranchPresets(<<Branch("AudioEffectBranchPreset", Absent, Absent,
                                    <<Preset("AbletonDevicePreset",
                                             <<Dev("Tube", Absent, Absent)>>, <<>>)>>),
                             Branch("InstrumentBranchPreset", "Keys", Absent, Absent),
                             Branch("AudioEffectBranchPreset", "Wet", "true",
                                    <<Preset("AbletonDevicePreset",
                                             <<Dev("Reverb", "REVERB", "false")>>, <<>>)>>),
                             Branch("AudioEffectBranchPreset", "", "false", Absent)>>)>>)

\* branch elements of unusual shape: an On field without Manual before one with it,
\* a Device wrapper of two devices, a preset without a Device wrapper, branches of
\* another category between the matching ones
ShapeBranches ==
    << Branch("AudioEffectBranchPreset", "Dry", Absent,
              <<Preset("AbletonDevicePreset",
                       <<E("Reverb", NoValue, <<E("On", NoValue, <<>>)>>),
                         E("Tube", NoValue, <<E("On", NoValue, <<>>),
                                              E("On", NoValue, <<E("Manual", "false", <<>>)>>)>>)>>,
                       <<>>),
                E("AbletonDevicePreset", NoValue, <<>>),
                Preset("AbletonDevicePreset", <<>>, <<>>)>>),
       Branch("MidiEffectBranchPreset", "Arp", Absent, Absent),
       Branch("AudioEffectBranchPreset", Absent, "true", <<TwoChainRack>>),
       Branch("AudioEffectBranchPreset", "Deep", Absent,
              <<NestSpine("AudioEffectGroupDevice", RecursionLimit)>>),
       Branch("AudioEffectBranchPreset", "", Absent,
              <<Preset("AbletonDevicePreset", <<Dev("MysteryDevice", "mysterydevice", "true")>>,
                       <<>>)>>) >>

\* the documents whose branch collection is a part of ShapeBranches, in its order
ShapeInputs ==
    { Input(RackDoc(SimpleMain("AudioEffectGroupDevice"),
                    <<BranchPresets(SelectSeq(ShapeBranches, LAMBDA b : b \in keep))>>),
            DefaultFilename, FALSE) :
        keep \in SUBSET {ShapeBranches[i] : i \in DOMAIN ShapeBranches} }

\* an audio rack element that holds a branch collection of its own
RackHolding(name) ==
    E("AudioEffectGroupDevice", NoValue,
      <<BranchPresets(<<Branch("AudioEffectBranchPreset", name, Absent, Absent)>>)>>)

\* presets around a nested audio rack: the collection inside the device element only,
\* beside the device in a preset that is no group preset, inside and beside, and one
\* level further down beside the device
NestShapes ==
    { Preset("GroupDevicePreset", <<RackHolding("Inner")>>, <<>>),
      Preset("AbletonDevicePreset", <<Dev("AudioEffectGroupDevice", Absent, Absent)>>,
             <<BranchPresets(<<Branch("AudioEffectBranchPreset", "Outer", Absent, Absent)>>)>>),
      Preset("GroupDevicePreset", <<RackHolding("Inner")>>,
             <<BranchPresets(<<Branch("AudioEffectBranchPreset", "Outer", Absent, Absent),
                               Branch("AudioEffectBranchPreset", Absent, "true", Absent)>>)>>),
      Preset("GroupDevicePreset", <<Dev("AudioEffectGroupDevice", Absent, Absent)>>,
             <<E("Branches", NoValue,
                 <<BranchPresets(<<Branch("AudioEffectBranchPreset", "Outer", Absent,
                                          Absent)>>)>>)>>) }

NestShapeInputs ==
    { Input(RackDoc(SimpleMain(rt),
                    <<BranchPresets(<<Branch(branch_type_map[rt], "Lead", Absent, ps)>>)>>),
            DefaultFilename, FALSE) :
        rt \in RackTypeSet, ps \in SeqsUpTo(NestShapes, 2) }

Inputs ==
    ChainInputs \cup MacroInputs \cup OddInputs \cup FileInputs \cup NameInputs
    \cup DeviceInputs \cup ShapeInputs \cup NestShapeInputs

Init ==
    /\ \E inp \in Inputs :
          /\ file = inp.file
          /\ filename = inp.filename
          /\ verbose = inp.verbose
    /\ pc = "start"
    /\ xml_root = None
    /\ rack_info = NoResult
    /\ detected = NotDetected
    /\ branches = <<>>
    /\ idx = 0
    /\ result = NoResult
    /\ raised = ""
    /\ stdout = <<>>
    /\ other = NoFrame
    /\ ServerIdle

Next == Decompress \/ Detect \/ Macros \/ FindBranches \/ ParseChain \/ Return

Spec == Init /\ [][Next]_vars

\* the calls followed to their end: collections of every branch variant, the unusual
\* shapes, a macro value that is no number, trees without a rack, files that do not parse
EndInputs ==
    ChainInputsOf({<<BranchPresets(bs)>> : bs \in SeqsUpTo(BranchVariants, 1)}, {TRUE})
    \cup { Input(RackDoc(SimpleMain("AudioEffectGroupDevice"), <<BranchPresets(ShapeBranches)>>),
                 DefaultFilename, FALSE),
           Input(RackDoc(E("AudioEffectGroupDevice", NoValue, MacroFields(0, "Cutoff", "loud")),
                         <<BranchPresets(<<SimpleBranch>>)>>),
                 DefaultFilename, FALSE) }
    \cup OddInputs
    \cup FileInputs

EndInit ==
    /\ \E inp \in EndInputs :
          /\ file = inp.file
          /\ filename = inp.filename
          /\ verbose = inp.verbose
    /\ pc = "start"
    /\ xml_root = None
    /\ rack_info = NoResult
    /\ detected = NotDetected
    /\ branches = <<>>
    /\ idx = 0
    /\ result = NoResult
    /\ raised = ""
    /\ stdout = <<>>
    /\ other = NoFrame
    /\ ServerIdle

\* the interpreter goes on with the call as long as a step is left to take
FairSpec == EndInit /\ [][Next]_vars /\ WF_vars(Next)

(***************************************************************************)
(* Two invocations at once: the request handlers of app.py and             *)
(* enhanced_routes.py call the decoder for each upload, and the server     *)
(* runs handlers side by side. The variables above are the frame of the    *)
(* invocation that runs; the other one waits in other. stdout is the one   *)
(* stream of the process.                                                  *)
(***************************************************************************)
\* the inputs of the two invocations
PairInputs ==
    { Input(RackDoc(SimpleMain("AudioEffectGroupDevice"), <<BranchPresets(bs)>>),
            DefaultFilename, verb) :
        bs \in {<<SimpleBranch>>, <<ShapeBranches[3], ShapeBranches[4], ShapeBranches[5]>>},
        verb \in BOOLEAN }
    \cup { Input(RackDoc(SimpleMain("InstrumentGroupDevice"), <<>>), <<"b", ".", "g">>, verb) :
             verb \in BOOLEAN }
    \cup { Input(RackDoc(E("AudioEffectGroupDevice", NoValue, MacroFields(0, "Cutoff", "loud")),
                         <<BranchPresets(<<SimpleBranch>>)>>),
                 DefaultFilename, FALSE),
           Input(Root(<<>>), DefaultFilename, TRUE),
           [file |-> [gzip |-> FALSE, wellformed |-> TRUE, tree |-> Root(<<>>)],
            filename |-> DefaultFilename, verbose |-> FALSE] }

\* the frame of an invocation about to start
StartFrame(inp) ==
    [file |-> inp.file, filename |-> inp.filename, verbose |-> inp.verbose,
     pc |-> "start", xml_root |-> None, rack_info |-> NoResult, detected |-> NotDetected,
     branches |-> <<>>, idx |-> 0, result |-> NoResult, raised |-> ""]

\* the frame of the invocation that runs
Running ==
    [file |-> file, filename |-> filename, verbose |-> verbose,
     pc |-> pc, xml_root |-> xml_root, rack_info |-> rack_info, detected |-> detected,
     branches |-> branches, idx |-> idx, result |-> result, raised |-> raised]

PairInit ==
    /\ \E inp \in PairInputs :
          /\ file = inp.file
          /\ filename = inp.filename
          /\ verbose = inp.verbose
    /\ pc = "start"
    /\ xml_root = None
    /\ rack_info = NoResult
    /\ detected = NotDetected
    /\ branches = <<>>
    /\ idx = 0
    /\ result = NoResult
    /\ raised = ""
    /\ stdout = <<>>
    /\ \E inp \in PairInputs : other = StartFrame(inp)
    /\ ServerIdle

\* a switch that leaves the chain loop's index where it is, as if the two invocations
\* counted in one place
SwitchKeepsIndex ==
    /\ other # NoFrame
    /\ other' = Running
    /\ file' = other.file
    /\ filename' = other.filename
    /\ verbose' = other.verbose
    /\ pc' = other.pc
    /\ xml_root' = other.xml_root
    /\ rack_info' = other.rack_info
    /\ detected' = other.detected
    /\ branches' = other.branches
    /\ result' = other.result
    /\ raised' = other.raised
    /\ UNCHANGED <<server, idx, stdout>>

\* a switch that leaves the dictionary under construction where it is, as if the two
\* invocations built one dictionary
SwitchKeepsDictionary ==
    /\ other # NoFrame
    /\ other' = Running
    /\ file' = other.file
    /\ filename' = other.filename
    /\ verbose' = other.verbose
    /\ pc' = other.pc
    /\ xml_root' = other.xml_root
    /\ detected' = other.detected
    /\ branches' = other.branches
    /\ idx' = other.idx
    /\ result' = other.result
    /\ raised' = other.raised
    /\ UNCHANGED <<server, rack_info, stdout>>

\* the scheduler takes the running invocation off and puts the waiting one on; each
\* invocation keeps its arguments and its locals
Switch ==
    /\ other # NoFrame
    /\ other' = Running
    /\ file' = other.file
    /\ filename' = other.filename
    /\ verbose' = other.verbose
    /\ pc' = other.pc
    /\ xml_root' = other.xml_root
    /\ rack_info' = other.rack_info
    /\ detected' = other.detected
    /\ branches' = other.branches
    /\ idx' = other.idx
    /\ result' = other.result
    /\ raised' = other.raised
    /\ UNCHANGED <<server, stdout>>

PairNext == Next \/ Switch

PairSpec == PairInit /\ [][PairNext]_vars

(***************************************************************************)
(* What the claims speak of.                                               *)
(***************************************************************************)
Range(s) == {s[i] : i \in DOMAIN s}

\* the Error and the Warning diagnostics of a document
Errors(d) == DictGet(d, "parsing_errors", <<>>)

Warnings(d) == DictGet(d, "parsing_warnings", <<>>)

\* parse_chains_and_devices has returned a document
Returned == pc = "done" /\ result # NoResult

\* detection found one of the three categories
KnownCategory == detected.rack_type \in RackTypeSet

\* the decode of the j-th listed branch element, taken on its own
ChainAlone(j) == parse_single_chain_branch(branches[j], j - 1, 1)

\* the listed branch elements whose decode raises
FailingChains == {j \in 1..Len(branches) : ChainAlone(j).raised}

\* the chains of the first n listed branch elements that decode, in source order
RECURSIVE DecodedUpTo(_)
DecodedUpTo(n) ==
    IF n = 0 THEN <<>>
    ELSE DecodedUpTo(n - 1)
         \o (IF ChainAlone(n).raised THEN <<>> ELSE <<ChainAlone(n).val>>)

(***************************************************************************)
(* C1: when the decode of the branch element at 0-based position k raises, *)
(* the chain loop catches it, records an Error diagnostic naming chain     *)
(* k+1, and goes on: every other listed element yields the chain its own   *)
(* decode yields, no exception leaves the function, and the document is    *)
(* returned once all elements were visited.                                *)
(***************************************************************************)
C1_FailingChainIsContained ==
    \* the loop over the listed elements is left by the return only
    /\ branches # <<>> => (pc \in {"chains", "done"} /\ raised = "")
    /\ pc \in {"chains", "done"} =>
          /\ rack_info["chains"] = DecodedUpTo(idx)
          /\ \A k \in 1..idx :
                ChainAlone(k).raised =>
                    ChainErrorMessage(k - 1, ChainAlone(k).exc) \in Range(Errors(rack_info))
          /\ pc = "done" => (idx = Len(branches) /\ result = rack_info)

\* a document is returned in which a chain after a failing one was decoded
C1_Witness ==
    /\ Returned
    /\ Len(branches) = 3
    /\ \E k \in FailingChains : \E j \in (k + 1)..Len(branches) :
          /\ ~ChainAlone(j).raised
          /\ ChainAlone(j).val \in Range(result["chains"])
          /\ ChainAlone(j).val["devices"] # <<>>

NoRackTag(root) ==
    /\ root.tag \notin RackTypeSet
    /\ \A e \in Range(IterSeq(root.children)) : e.tag \notin RackTypeSet

(***************************************************************************)
(* C3: for a parsed tree in which no element carries one of the three rack *)
(* tags, parse_chains_and_devices returns a document: its rack_type is     *)
(* None, its chains are the empty sequence, and it carries exactly one     *)
(* Error diagnostic (and no macro controls are read).                      *)
(***************************************************************************)
C3_UnknownCategoryDocument ==
    (xml_root # None /\ pc \notin {"start", "parse"} /\ NoRackTag(xml_root)) =>
        /\ Returned
        /\ raised = ""
        /\ result["rack_type"] = NoneStr
        /\ Has(result, "chains") /\ result["chains"] = <<>>
        /\ Len(Errors(result)) = 1

\* a document with a group preset and devices, but no rack, was decoded
C3_Witness ==
    /\ Returned
    /\ NoRackTag(xml_root)
    /\ FindDesc(xml_root, "GroupDevicePreset") # None
    /\ FindDesc(xml_root, "Reverb") # None
    /\ result["rack_type"] = NoneStr

(***************************************************************************)
(* C4, as stated: the decompressor fails with DecompressionError on bytes  *)
(* that are not gzip and with MalformedDocumentError on content that is    *)
(* not well-formed.                                                        *)
(***************************************************************************)
C4_TypedFailures ==
    pc = "failed" =>
        raised = IF ~file.gzip THEN "DecompressionError" ELSE "MalformedDocumentError"

(***************************************************************************)
(* C4, amended: the decompressor returns a parsed tree exactly when the    *)
(* input is valid gzip whose content is well-formed, and then the tree of  *)
(* that content; in both failure cases it catches the exception, prints it *)
(* and returns None, so that no error type tells the two failures apart,   *)
(* no partial tree is returned and no document is built.                   *)
(***************************************************************************)
C4_TreeOrNone ==
    pc # "start" =>
        /\ xml_root # None <=> (file.gzip /\ file.wellformed)
        /\ xml_root # None => xml_root = file.tree
        /\ xml_root = None =>
              /\ pc = "failed"
              /\ raised = ""
              /\ Len(stdout) = 1
              /\ result = NoResult /\ rack_info = NoResult

\* gzip content that is not well-formed, with a partial tree before the error
C4_Witness ==
    /\ pc = "failed"
    /\ file.gzip /\ ~file.wellformed
    /\ file.tree.children # <<>>
    /\ xml_root = None

(***************************************************************************)
(* C5: once decompression and parsing succeeded, parse_chains_and_devices  *)
(* returns a document for every tree: no exception reaches the caller.     *)
(***************************************************************************)
C5_NoHardFailure == xml_root # None => (raised = "" /\ pc # "raised")

\* the display name of macro i, as the loop reads it: a name element without a Value
\* attribute reads as the default
MacroNameRead(i) ==
    LET e == Find(detected.device, Fmt("MacroDisplayNames.", i))
    IN  IF e = None THEN NoneStr ELSE Get(e, DefaultMacroName(i))

\* macro i carries a name of the user's
MacroIsNamed(i) == MacroNameRead(i) \notin {NoneStr, DefaultMacroName(i)}

\* the entries of index i in a list of macro controls
EntriesOf(macros, i) == {k \in DOMAIN macros : macros[k]["index"] = i}

(***************************************************************************)
(* C6: in a document of a known category, for every index i in 0..15 the   *)
(* macro controls hold exactly one entry of index i when the display name  *)
(* of i is present and differs from "Macro {i+1}", and none otherwise; no  *)
(* entry has an index outside 0..15; the entries are in index order.       *)
(***************************************************************************)
C6_NamedMacrosOnce ==
    (KnownCategory /\ pc \in {"branches", "chains", "done"}) =>
        LET macros == rack_info["macro_controls"]
        IN  /\ \A i \in 0..15 :
                  Cardinality(EntriesOf(macros, i)) = IF MacroIsNamed(i) THEN 1 ELSE 0
            /\ \A k \in DOMAIN macros : macros[k]["index"] \in 0..15
            /\ \A k \in DOMAIN macros :
                  macros[k]["name"] = MacroNameRead(macros[k]["index"])
            /\ pc = "done" => result["macro_controls"] = macros

\* the first and the last index are both named, in a returned document
C6_Witness ==
    /\ Returned /\ KnownCategory
    /\ MacroIsNamed(0) /\ MacroIsNamed(15)
    /\ Len(result["macro_controls"]) = 2
    /\ result["macro_controls"][2]["index"] = 15

\* the value the claim gives macro i: the number of the control's Value, 0.0 when the
\* node or the attribute is absent or the attribute is no number
ClaimedMacroValue(i) ==
    LET c == FindPath2(detected.device, Fmt("MacroControls.", i), "Manual")
    IN  IF c # None /\ c.value \in DOMAIN FloatLiterals THEN FloatLiterals[c.value] ELSE 0

(***************************************************************************)
(* C7: every named macro i is emitted with the numeric value of its        *)
(* control's value node, and with 0.0 when that node or its value is       *)
(* absent or not parsable as a number: the macro is still emitted.         *)
(***************************************************************************)
C7_MacroValueDefaults ==
    (KnownCategory /\ pc \in {"branches", "chains", "done", "raised"}) =>
        \A i \in 0..15 :
            MacroIsNamed(i) =>
                \E k \in DOMAIN rack_info["macro_controls"] :
                    /\ rack_info["macro_controls"][k]["index"] = i
                    /\ rack_info["macro_controls"][k]["value"] = ClaimedMacroValue(i)

(***************************************************************************)
(* C8: when no BranchPresets collection is found for a rack of a known     *)
(* category, the document has an empty chains sequence and a Warning       *)
(* diagnostic saying so, whatever the verbose flag.                        *)
(***************************************************************************)
C8_MissingCollectionWarns ==
    (Returned /\ KnownCategory /\ BranchPresetsOf(xml_root) = None) =>
        /\ result["chains"] = <<>>
        /\ NoBranchPresetsWarning \in Range(Warnings(result))

(***************************************************************************)
(* C9: when the category is known and the BranchPresets collection exists  *)
(* but holds no element of the category's branch tag, the document has a   *)
(* Warning diagnostic and its chains field is present and empty.           *)
(***************************************************************************)
C9_NoMatchingBranchWarns ==
    (Returned /\ KnownCategory /\ BranchPresetsOf(xml_root) # None
       /\ FindAll(BranchPresetsOf(xml_root), branch_type_map[detected.rack_type]) = <<>>) =>
        /\ Has(result, "chains") /\ result["chains"] = <<>>
        /\ Warnings(result) # <<>>
        /\ NoChainsWarning(branch_type_map[detected.rack_type]) \in Range(Warnings(result))

\* a collection of three elements, none of the category's branch tag
C9_Witness ==
    /\ Returned /\ KnownCategory
    /\ BranchPresetsOf(xml_root) # None
    /\ Len(BranchPresetsOf(xml_root).children) = 3
    /\ FindAll(BranchPresetsOf(xml_root), branch_type_map[detected.rack_type]) = <<>>
    /\ Len(Warnings(result)) = 1

\* the devices of a sequence of chains, those of nested chains included
RECURSIVE DevicesIn(_)
DevicesIn(chains) ==
    UNION { UNION { {d} \cup (IF Has(d, "chains") THEN DevicesIn(d["chains"]) ELSE {}) :
                    d \in Range(c["devices"]) } :
            c \in Range(chains) }

(***************************************************************************)
(* C10: a decoded device carries the nested-chains field if and only if    *)
(* its raw type tag is one of the three rack types.                        *)
(***************************************************************************)
C10_NestedChainsIffRack ==
    Returned =>
        \A d \in DevicesIn(result["chains"]) :
            Has(d, "chains") <=> d["type"] \in RackTypeSet

(***************************************************************************)
(* The decoded chains and devices, paired with the elements they were      *)
(* built from.                                                             *)
(***************************************************************************)
Max(S) == CHOOSE x \in S : \A y \in S : y <= x

\* the device elements a branch element holds, each with the preset around it:
\* the children of the Device wrapper of every child of DevicePresets
RECURSIVE SlotsOf(_)
SlotsOf(presets) ==
    IF presets = <<>> THEN <<>>
    ELSE LET device == Find(Head(presets), "Device")
         IN  (IF device = None THEN <<>>
              ELSE [i \in 1..Len(device.children) |->
                        [elem |-> device.children[i], preset |-> Head(presets)]])
             \o SlotsOf(Tail(presets))

SourceSlots(branch) ==
    LET device_presets == Find(branch, "DevicePresets")
    IN  IF device_presets = None THEN <<>> ELSE SlotsOf(device_presets.children)

\* the branch elements of a rack device's own category beside it in its preset
SiblingBranches(slot) ==
    LET branch_presets == Find(slot.preset, "BranchPresets")
    IN  IF /\ slot.elem.tag \in RackTypeSet
           /\ slot.preset.tag = "GroupDevicePreset"
           /\ branch_presets # None
        THEN FindAll(branch_presets, branch_type_map[slot.elem.tag])
        ELSE <<>>

\* a sequence of branch elements, each with its 0-based position among them
Numbered(elems) == [i \in 1..Len(elems) |-> [elem |-> elems[i], k |-> i - 1]]

\* how deep the audio racks of a branch element nest, the element itself counted
RECURSIVE AudioDepth(_)
AudioDepth(branch) ==
    LET inner == UNION { Range(SiblingBranches(s)) :
                         s \in {t \in Range(SourceSlots(branch)) :
                                  t.elem.tag = "AudioEffectGroupDevice"} }
    IN  IF inner = {} THEN 1 ELSE 1 + Max({AudioDepth(b) : b \in inner})

\* the listed branch elements the interpreter can walk to the bottom
KeptSlots == SelectSeq(Numbered(branches), LAMBDA s : AudioDepth(s.elem) <= RecursionLimit)

\* a decoded sequence and its source sequence differ in length
Mismatch == [kind |-> "mismatch"]

\* the pairs of a decoded chain and its branch element, and of a decoded device and
\* its device element, over a sequence of chains and all the chains nested in it
RECURSIVE PairChains(_, _), PairDevices(_, _)
PairChains(chains, slots) ==
    IF Len(chains) # Len(slots) THEN {Mismatch}
    ELSE UNION { {[kind |-> "chain", chain |-> chains[j], elem |-> slots[j].elem,
                   k |-> slots[j].k]}
                 \cup PairDevices(chains[j]["devices"], SourceSlots(slots[j].elem)) :
                 j \in DOMAIN chains }

PairDevices(devs, slots) ==
    IF Len(devs) # Len(slots) THEN {Mismatch}
    ELSE UNION { {[kind |-> "device", dev |-> devs[i], elem |-> slots[i].elem,
                   preset |-> slots[i].preset]}
                 \cup (IF Has(devs[i], "chains")
                       THEN PairChains(devs[i]["chains"], Numbered(SiblingBranches(slots[i])))
                       ELSE {}) :
                 i \in DOMAIN devs }

DecodedPairs == PairChains(result["chains"], KeptSlots)

DevicePairs == {p \in DecodedPairs : p.kind = "device"}

ChainPairs == {p \in DecodedPairs : p.kind = "chain"}

\* the chains the top-level walk builds from a branch collection for a category
RECURSIVE WalkFrom(_, _)
WalkFrom(elems, i) ==
    IF i > Len(elems) THEN <<>>
    ELSE LET chain == parse_single_chain_branch(elems[i], i - 1, 1)
         IN  (IF chain.raised THEN <<>> ELSE <<chain.val>>) \o WalkFrom(elems, i + 1)

TopLevelWalk(branch_presets, rack_type) ==
    IF branch_presets = None THEN <<>>
    ELSE WalkFrom(FindAll(branch_presets, get_branch_preset_type(rack_type)), 1)

(***************************************************************************)
(* C11: a rack device of any of the three categories nested in a chain     *)
(* carries chains, and they are the chains the top-level walk builds from  *)
(* the branch collection beside it for its category.                       *)
(***************************************************************************)
C11_NestedWalkIsTopLevelWalk ==
    (Returned /\ Has(result, "chains")) =>
        /\ Mismatch \notin DecodedPairs
        /\ \A p \in DevicePairs :
              (p.elem.tag \in RackTypeSet /\ p.preset.tag = "GroupDevicePreset") =>
                  /\ Has(p.dev, "chains")
                  /\ p.dev["chains"] = TopLevelWalk(Find(p.preset, "BranchPresets"), p.elem.tag)

\* what the claims say of a device element: its custom name (NoneStr for none), the
\* table's resolution of its tag, its on/off control
CustomNameOf(elem) ==
    LET user_names == FindAll(elem, "UserName")
    IN  IF user_names # <<>> /\ user_names[1].value \notin {NoValue, ""}
        THEN user_names[1].value ELSE NoneStr

TableResolution(tag) == IF tag \in DOMAIN device_type_map THEN device_type_map[tag] ELSE tag

OnControls(elem) == ChildrenTagged(FindAll(elem, "On"), "Manual")

(***************************************************************************)
(* C12: the display name of a decoded device is its custom name when that  *)
(* is present and non-empty, else the table's name for its tag, else the   *)
(* tag itself; an unrecognized tag loses no device.                        *)
(***************************************************************************)
C12_DisplayName ==
    (Returned /\ Has(result, "chains")) =>
        /\ Mismatch \notin DecodedPairs
        /\ \A p \in DevicePairs :
              /\ p.dev["type"] = p.elem.tag
              /\ p.dev["name"] = IF CustomNameOf(p.elem) # NoneStr THEN CustomNameOf(p.elem)
                                 ELSE TableResolution(p.elem.tag)

\* an unrecognized tag whose custom name field is there and empty: the tag is the name
C12_Witness ==
    /\ Returned /\ Has(result, "chains")
    /\ \E p \in DevicePairs :
          /\ p.elem.tag \notin DOMAIN device_type_map
          /\ FindAll(p.elem, "UserName") # <<>>
          /\ CustomNameOf(p.elem) = NoneStr
          /\ p.dev["name"] = p.elem.tag

(***************************************************************************)
(* C13: a decoded device has preset_name exactly when it has a custom name *)
(* that differs, case ignored, from the table's resolution of its tag, and *)
(* then preset_name is that resolution.                                    *)
(***************************************************************************)
C13_PresetName ==
    (Returned /\ Has(result, "chains")) =>
        \A p \in DevicePairs :
            /\ Has(p.dev, "preset_name") <=>
                  (/\ CustomNameOf(p.elem) # NoneStr
                   /\ Lower(CustomNameOf(p.elem)) # Lower(TableResolution(p.elem.tag)))
            /\ Has(p.dev, "preset_name") => p.dev["preset_name"] = TableResolution(p.elem.tag)

\* one device renamed to another word, one renamed to its own name in capitals
C13_Witness ==
    /\ Returned /\ Has(result, "chains")
    /\ \E p, q \in DevicePairs :
          /\ Has(p.dev, "preset_name")
          /\ CustomNameOf(q.elem) \notin {NoneStr, TableResolution(q.elem.tag)}
          /\ ~Has(q.dev, "preset_name")

(***************************************************************************)
(* C14: the chain built from the matching branch element at 0-based        *)
(* position k, at the top level or nested, is named by the element's Name  *)
(* field when that is present and non-empty, and "Chain k+1" otherwise.    *)
(***************************************************************************)
C14_ChainName ==
    (Returned /\ Has(result, "chains")) =>
        \A p \in ChainPairs :
            LET names == FindAll(p.elem, "Name")
            IN  p.chain["name"] = IF names # <<>> /\ names[1].value \notin {NoValue, ""}
                                  THEN names[1].value
                                  ELSE Fmt("Chain ", p.k + 1)

\* a nested and a top-level chain named by position, beside a chain named by its field
C14_Witness ==
    /\ Returned /\ Has(result, "chains")
    /\ \E p \in ChainPairs : p.k = 2 /\ p.chain["name"] = "Chain 3" /\ p.chain \notin Range(result["chains"])
    /\ \E p \in ChainPairs : p.k = 1 /\ p.chain["name"] = "Chain 2" /\ p.chain \in Range(result["chains"])
    /\ \E p \in ChainPairs : p.chain["name"] = "Wet"

(***************************************************************************)
(* C15: the chains of a document, and the chains of every nested rack, are *)
(* in the order of the branch elements they were built from.               *)
(***************************************************************************)
C15_SourceOrder ==
    (Returned /\ Has(result, "chains")) =>
        /\ Mismatch \notin DecodedPairs
        /\ \A p \in ChainPairs : p.chain = parse_single_chain_branch(p.elem, p.k, 1).val

\* three different top-level chains, the second one holding three different nested chains
C15_Witness ==
    /\ Returned /\ Has(result, "chains")
    /\ Len(result["chains"]) = 3
    /\ Cardinality(Range(result["chains"])) = 3
    /\ \E d \in Range(result["chains"][2]["devices"]) :
          Has(d, "chains") /\ Len(d["chains"]) = 3 /\ Cardinality(Range(d["chains"])) = 3

(***************************************************************************)
(* C16: a decoded device is enabled when its element has no On/Manual      *)
(* control; when it has one, it is enabled exactly when the control's      *)
(* value is "true".                                                        *)
(***************************************************************************)
C16_Enabled ==
    (Returned /\ Has(result, "chains")) =>
        \A p \in DevicePairs :
            p.dev["is_on"] = IF OnControls(p.elem) = <<>> THEN TRUE
                             ELSE OnControls(p.elem)[1].value = "true"

\* a control without a value switches the device off
C16_Witness ==
    /\ Returned /\ Has(result, "chains")
    /\ \E p \in DevicePairs :
          /\ OnControls(p.elem) # <<>>
          /\ OnControls(p.elem)[1].value = NoValue
          /\ p.dev["is_on"] = FALSE

\* n is the base name of the path f without its extension: f is a directory part, n and
\* an extension; the extension is empty or one dot and what follows it, with a character
\* other than a dot before it in the base name
NoExtensionIn(n) == \A i \in DOMAIN n : n[i] = "." => \A j \in 1..i : n[j] = "."

IsBaseNameWithoutExtension(n, f) ==
    \E a \in 0..Len(f) : \E b \in a..Len(f) :
        LET dir == SubSeq(f, 1, a)
            ext == SubSeq(f, b + 1, Len(f))
        IN  /\ n = SubSeq(f, a + 1, b)
            /\ dir = <<>> \/ dir[Len(dir)] = "/"
            /\ "/" \notin Range(n) \cup Range(ext)
            /\ IF ext = <<>> THEN NoExtensionIn(n)
               ELSE /\ ext[1] = "."
                    /\ "." \notin Range(Tail(ext))
                    /\ \E i \in DOMAIN n : n[i] # "."

(***************************************************************************)
(* C18: the name of a returned document is decided by the filename alone:  *)
(* it is the filename's base name without its extension whatever the tree  *)
(* holds ("Unknown" when no filename is given).                            *)
(***************************************************************************)
C18_NameFromFilenameOnly ==
    Returned =>
        /\ Has(result, "rack_name")
        /\ IF filename = <<>> THEN result["rack_name"] = UnknownName
           ELSE IsBaseNameWithoutExtension(result["rack_name"], filename)

\* a main device with a user name of its own, decoded under a two-dot filename
C18_Witness ==
    /\ Returned /\ KnownCategory
    /\ FindAll(detected.device, "UserName") # <<>>
    /\ filename = <<"b", ".", "c", ".", "g">>
    /\ result["rack_name"] = <<"b", ".", "c">>

(***************************************************************************)
(* Two invocations side by side.                                           *)
(***************************************************************************)
\* the chain loop of lines 117-129 run to its end
RECURSIVE ChainLoop(_, _, _)
ChainLoop(info, found, i) ==
    IF i >= Len(found) THEN info
    ELSE ChainLoop(AfterChain(info, parse_single_chain_branch(found[i + 1], i, 1), i),
                   found, i + 1)

\* how an invocation ends
Outcome(at, document, exc) == [pc |-> at, result |-> document, raised |-> exc]

\* lines 101-139 run without a break, from the dictionary with its macros
WalkAlone(info, root, rack_type, verb) ==
    LET branch_presets == BranchPresetsOf(root)
        branch_preset_type == get_branch_preset_type(rack_type)
    IN  IF branch_presets # None
        THEN IF branch_preset_type # NoBranchType
             THEN LET found == FindAll(branch_presets, branch_preset_type)
                  IN  ChainLoop(WithBranchList(info, found, branch_preset_type), found, 0)
             ELSE SetDefaultAppend(info, "parsing_errors",
                                   "Unknown branch preset type for rack type " \o rack_type)
        ELSE WithoutBranchPresets(info, branch_presets, verb)

\* the whole decode of one input with nothing beside it
DecodeAlone(f, name, verb) ==
    LET root == decompress_and_parse_ableton_file(f)
        d == detect_rack_type_and_device(root)
        info == AfterDetection(InitialRackInfo(name), d)
        macros == ParseMacros(d.device, 0)
    IN  IF root = None THEN Outcome("failed", NoResult, "")
        ELSE IF d.rack_type = NoneStr \/ d.device = None THEN Outcome("done", info, "")
        ELSE IF macros.raised THEN Outcome("raised", NoResult, macros.exc)
        ELSE Outcome("done",
                     WalkAlone([info EXCEPT !["macro_controls"] = macros.val],
                               root, d.rack_type, verb),
                     "")

Finished(frame) == frame.pc \in {"done", "raised", "failed"}

OutcomeOf(frame) == Outcome(frame.pc, frame.result, frame.raised)

\* the tree holds a branch collection
HasBranchCollection(tree) == BranchPresetsOf(tree) # None

C19_InterleavingIsInvisible ==
    (other # NoFrame /\ file.tree # other.file.tree) =>
        \A frame \in {Running, other} :
            /\ frame.xml_root \in {None, frame.file.tree}
            /\ Finished(frame) =>
                  OutcomeOf(frame) = DecodeAlone(frame.file, frame.filename, frame.verbose)

\* both invocations went through their chain loops in turns and returned different documents
C19_Witness ==
    /\ other # NoFrame
    /\ pc = "done" /\ other.pc = "done"
    /\ file.tree # other.file.tree
    /\ Len(result["chains"]) = 2 /\ Len(other.result["chains"]) = 1
    /\ verbose /\ other.verbose
    /\ \E i \in 1..(Len(stdout) - 2) :
          /\ stdout[i] = "Found 3 AudioEffectBranchPreset elements"
          /\ stdout[i + 1] = "Found 1 AudioEffectBranchPreset elements"
          /\ stdout[i + 2] = "Error parsing chain 2"

(***************************************************************************)
(* A failure below the top level.                                          *)
(***************************************************************************)
\* the listed branch elements in which a nested chain lies deeper than the
\* interpreter goes: the failure is in the nested chain, the top-level element is sound
TooDeep == {j \in 1..Len(branches) : AudioDepth(branches[j]) > RecursionLimit}

\* the devices of a branch element that are no racks
PlainDevices(branch) == {s.elem : s \in {t \in Range(SourceSlots(branch)) : t.elem.tag \notin RackTypeSet}}

\* the name the chain of the j-th listed branch element has or would have
NameOfListed(j) == ChainName(branches[j], j - 1)

DepthCeiling == RecursionLimit - 1

\* how deep the chains of a decoded sequence nest, the sequence itself counted
RECURSIVE DecodedDepth(_)
DecodedDepth(chains) ==
    LET racks == {d \in UNION {Range(c["devices"]) : c \in Range(chains)} : Has(d, "chains")}
    IN  IF chains = <<>> THEN 0
        ELSE 1 + Max({0} \cup {DecodedDepth(d["chains"]) : d \in racks})

(***************************************************************************)
(* C21: the decoder keeps to a depth ceiling of its own: no decoded chain  *)
(* lies deeper than the ceiling, and a listed branch element that nests    *)
(* deeper leaves a diagnostic.                                             *)
(***************************************************************************)
C21_DepthCeiling ==
    (Returned /\ Has(result, "chains")) =>
        /\ DecodedDepth(result["chains"]) <= DepthCeiling
        /\ \A j \in 1..Len(branches) :
              AudioDepth(branches[j]) > DepthCeiling =>
                  (Errors(result) # <<>> \/ Warnings(result) # <<>>)

(***************************************************************************)
(* The walk ends.                                                          *)
(***************************************************************************)
\* b lies strictly below e in the tree
IsProperPart(b, e) == b \in Range(FindAllDesc(e, b.tag))

\* the device slots of a branch element at every level of nesting
RECURSIVE AllSlots(_)
AllSlots(branch) ==
    Range(SourceSlots(branch))
    \cup UNION { UNION { AllSlots(b) : b \in Range(SiblingBranches(s)) } :
                 s \in Range(SourceSlots(branch)) }

\* every recursive call of the nested walk is made on branch elements strictly below
\* the device preset the walk is at
WalkDescends ==
    \A j \in 1..Len(branches) :
        \A s \in AllSlots(branches[j]) :
            IsNestedRack(s.elem.tag, s.preset) =>
                \A b \in Range(NestedBranches(s.preset)) : IsProperPart(b, s.preset)

DetectionDone == pc \in {"macros", "branches", "chains", "done", "raised"}

\* the elements below the root, in document order, and those of them of a rack type
Below(root) == IterSeq(root.children)

RackNodesBelow(root) == SelectSeq(Below(root), LAMBDA e : e.tag \in RackTypeSet)

\* the pair is a category with a node of that category
WellFormedPair(d) == d.device # None /\ d.rack_type \in RackTypeSet /\ d.device.tag = d.rack_type

(***************************************************************************)
(* C23 as claimed: detection answers (None, None) exactly when no element  *)
(* of the tree, the root included, has one of the three rack tags;         *)
(* otherwise it answers a category with a node of that category.           *)
(***************************************************************************)
C23_UnknownIffNoRackNode ==
    DetectionDone =>
        /\ detected = NotDetected <=> NoRackTag(xml_root)
        /\ detected # NotDetected => WellFormedPair(detected)

(***************************************************************************)
(* C23: detection answers (None, None) exactly when no element below the   *)
(* root has one of the three rack tags (the root's own tag is not looked   *)
(* at); otherwise it answers a category with a node of that category, so a *)
(* category without a main device never comes out.                         *)
(***************************************************************************)
C23_UnknownIffNoRackNodeBelowRoot ==
    DetectionDone =>
        /\ detected = NotDetected <=> RackNodesBelow(xml_root) = <<>>
        /\ detected # NotDetected =>
              WellFormedPair(detected) /\ detected.device \in Range(RackNodesBelow(xml_root))
        /\ detected = NotDetected =>
              pc = "done" /\ UnknownRackTypeError \in Range(Errors(result))

\* a tree whose root is the only rack element: no category is found
C23_Witness ==
    /\ DetectionDone
    /\ xml_root.tag \in RackTypeSet
    /\ RackNodesBelow(xml_root) = <<>>
    /\ detected = NotDetected

\* the rack elements on the primary structural path of a preset: the rack-typed
\* children of its Device children
PrimaryMatchesOf(group_preset) ==
    {c \in UNION {Range(d.children) : d \in Range(FindAll(group_preset, "Device"))} :
        c.tag \in RackTypeSet}

\* the GroupDevicePreset elements below the root, in document order
GroupPresetsBelow(root) == SelectSeq(Below(root), LAMBDA e : e.tag = "GroupDevicePreset")

(***************************************************************************)
(* C24 as claimed: whenever some GroupDevicePreset of the tree has a       *)
(* Device child with a rack-typed child, detection answers such a match;   *)
(* the search of the whole tree decides only when no preset has one.       *)
(***************************************************************************)
C24_AnyPresetMatchWins ==
    DetectionDone =>
        \A g \in Range(GroupPresetsBelow(xml_root)) :
            PrimaryMatchesOf(g) # {} =>
                \E h \in Range(GroupPresetsBelow(xml_root)) :
                    detected.device \in PrimaryMatchesOf(h)

(***************************************************************************)
(* C24: the primary path is tried on one preset only, the first            *)
(* GroupDevicePreset below the root in document order, and on its first    *)
(* Device child: when that child holds a rack-typed element, the first     *)
(* such element is the answer, whatever racks stand elsewhere or earlier;  *)
(* in every other case the whole tree is searched, even if a later preset  *)
(* has a match.                                                            *)
(***************************************************************************)
C24_FirstPresetThenSearch ==
    DetectionDone =>
        LET presets == GroupPresetsBelow(xml_root)
            devices == IF presets = <<>> THEN <<>> ELSE FindAll(presets[1], "Device")
            matches == IF devices = <<>> THEN <<>>
                       ELSE SelectSeq(devices[1].children, LAMBDA c : c.tag \in RackTypeSet)
        IN  IF matches # <<>>
            THEN detected = Detected(matches[1].tag, matches[1])
            ELSE detected = AlternatePath(xml_root, 1)

\* the first preset holds an instrument rack, an audio rack stands before it in the tree
C24_Witness ==
    /\ DetectionDone
    /\ GroupPresetsBelow(xml_root) # <<>>
    /\ PrimaryMatchesOf(GroupPresetsBelow(xml_root)[1]) # {}
    /\ detected.rack_type = "InstrumentGroupDevice"
    /\ RackNodesBelow(xml_root)[1].tag = "AudioEffectGroupDevice"

(***************************************************************************)
(* C25: when the primary path finds nothing, the answer is the first of    *)
(* AudioEffectGroupDevice, InstrumentGroupDevice, MidiEffectGroupDevice    *)
(* that has an element below the root, with the first element of that tag  *)
(* in document order, wherever the elements of the other categories stand. *)
(***************************************************************************)
C25_SearchPriority ==
    (DetectionDone /\ PrimaryPath(xml_root) = NotDetected /\ RackNodesBelow(xml_root) # <<>>) =>
        LET present == {k \in 1..Len(RackTypes) :
                           \E e \in Range(RackNodesBelow(xml_root)) : e.tag = RackTypes[k]}
            best == CHOOSE k \in present : \A m \in present : k <= m
            nodes == SelectSeq(RackNodesBelow(xml_root), LAMBDA e : e.tag = RackTypes[best])
        IN  /\ detected.rack_type = RackTypes[best]
            /\ detected.device = nodes[1]

\* a MIDI rack first in the document, an instrument rack after it, and a second
\* instrument rack after that: the first instrument rack is the answer
C25_Witness ==
    /\ DetectionDone /\ PrimaryPath(xml_root) = NotDetected
    /\ Len(RackNodesBelow(xml_root)) = 3
    /\ RackNodesBelow(xml_root)[1].tag = "MidiEffectGroupDevice"
    /\ Len(SelectSeq(RackNodesBelow(xml_root), LAMBDA e : e.tag = "InstrumentGroupDevice")) = 2
    /\ detected.rack_type = "InstrumentGroupDevice"
    /\ detected.device = RackNodesBelow(xml_root)[2]

(***************************************************************************)
(* The branch elements of the top-level collection.                        *)
(***************************************************************************)
\* the branch tag the claims give each category
ClaimedBranchTag ==
    [AudioEffectGroupDevice |-> "AudioEffectBranchPreset",
     InstrumentGroupDevice  |-> "InstrumentBranchPreset",
     MidiEffectGroupDevice  |-> "MidiEffectBranchPreset"]

\* the chain loop is over
ChainsWalked == Returned /\ KnownCategory /\ BranchPresetsOf(xml_root) # None

(***************************************************************************)
(* C26: the chains of a rack of category C are built from the elements of  *)
(* the collection that carry the one branch tag of C, from all of them and *)
(* from no other: each such element gives a chain or an error, in order.   *)
(***************************************************************************)
C26_OnlyMappedBranchTag ==
    ChainsWalked =>
        LET mapped == ClaimedBranchTag[detected.rack_type]
            tagged == SelectSeq(BranchPresetsOf(xml_root).children, LAMBDA e : e.tag = mapped)
        IN  /\ branches = tagged
            /\ Len(result["chains"]) + Cardinality(TooDeep) = Len(tagged)
            /\ Len(Errors(result)) = Cardinality(TooDeep)
            /\ Len(result["chains"]) = Len(KeptSlots)
            /\ \A n \in 1..Len(KeptSlots) :
                  /\ KeptSlots[n].elem.tag = mapped
                  /\ result["chains"][n] =
                        parse_single_chain_branch(KeptSlots[n].elem, KeptSlots[n].k, 1).val

\* an instrument rack over a collection of three elements of three tags: one chain
C26_Witness ==
    /\ ChainsWalked
    /\ detected.rack_type = "InstrumentGroupDevice"
    /\ Len(BranchPresetsOf(xml_root).children) = 3
    /\ Cardinality({e.tag : e \in Range(BranchPresetsOf(xml_root).children)}) = 3
    /\ Len(result["chains"]) = 1
    /\ result["chains"][1]["name"] = "Keys"

\* the GroupDevicePreset elements, the root among them, whose Device child holds the
\* detected main device
OwningPresets ==
    {g \in {xml_root} \cup Range(Below(xml_root)) :
        /\ g.tag = "GroupDevicePreset"
        /\ \E d \in Range(FindAll(g, "Device")) : detected.device \in Range(d.children)}

\* the BranchPresets children of those presets
OwnCollections == UNION {Range(FindAll(g, "BranchPresets")) : g \in OwningPresets}

(***************************************************************************)
(* C27: the top-level chains are read from the BranchPresets child of the  *)
(* GroupDevicePreset that holds the detected main device, and from no      *)
(* BranchPresets of another preset: without such a child there are no      *)
(* chains.                                                                 *)
(***************************************************************************)
C27_ChainsOfDetectedContainer ==
    (Returned /\ KnownCategory) =>
        IF OwnCollections = {}
        THEN branches = <<>> /\ result["chains"] = <<>>
        ELSE \E c \in OwnCollections :
                branches = FindAll(c, ClaimedBranchTag[detected.rack_type])

(***************************************************************************)
(* C28: the chains of a nested rack device are built from the branch       *)
(* collection that is a child of the device preset around it, beside the   *)
(* Device wrapper, when that preset is a GroupDevicePreset; a collection   *)
(* inside the device element, or beside the device in a preset of another  *)
(* tag, gives no chain.                                                    *)
(***************************************************************************)
C28_SiblingCollection ==
    (Returned /\ Has(result, "chains")) =>
        \A p \in DevicePairs :
            Has(p.dev, "chains") =>
                LET beside == FindAll(p.preset, "BranchPresets")
                    walked == IF p.preset.tag = "GroupDevicePreset" /\ beside # <<>>
                              THEN SelectSeq(beside[1].children,
                                             LAMBDA e : e.tag = "AudioEffectBranchPreset")
                              ELSE <<>>
                IN  /\ Len(p.dev["chains"]) = Len(walked)
                    /\ \A n \in 1..Len(walked) :
                          /\ p.dev["chains"][n]["is_soloed"] =
                                (FindAll(walked[n], "IsSoloed") # <<>>
                                 /\ FindAll(walked[n], "IsSoloed")[1].value = "true")
                          /\ LET names == FindAll(walked[n], "Name")
                             IN  p.dev["chains"][n]["name"] =
                                    IF names # <<>> /\ names[1].value \notin {NoValue, ""}
                                    THEN names[1].value ELSE Fmt("Chain ", n)

\* a rack with one collection inside its element and one beside it: the chains are those
\* of the one beside it; and a rack with a collection inside only: no chains
C28_Witness ==
    /\ Returned /\ Has(result, "chains")
    /\ \E p, q \in DevicePairs :
          /\ Has(p.dev, "chains") /\ Has(q.dev, "chains")
          /\ FindAll(p.elem, "BranchPresets") # <<>>
          /\ FindAll(q.elem, "BranchPresets") # <<>>
          /\ Len(p.dev["chains"]) = 2 /\ p.dev["chains"][1]["name"] = "Outer"
          /\ FindAll(q.preset, "BranchPresets") = <<>>
          /\ q.dev["chains"] = <<>>

(***************************************************************************)
(* The devices of a chain.                                                 *)
(***************************************************************************)
\* the children of a branch element's DevicePresets, and those of them that wrap a
\* device node: a Device child with an element in it
DevicePresetsOf(branch) ==
    LET device_presets == FindAll(branch, "DevicePresets")
    IN  IF device_presets = <<>> THEN <<>> ELSE device_presets[1].children

WrapsDevice(preset) == FindAll(preset, "Device") # <<>> /\ FindAll(preset, "Device")[1].children # <<>>

(***************************************************************************)
(* C29: a chain holds exactly one device for each device preset            *)
(* that wraps a device node, so as many devices as there are such presets. *)
(***************************************************************************)
C29_OneDevicePerPreset ==
    (Returned /\ Has(result, "chains")) =>
        \A p \in ChainPairs :
            Len(p.chain["devices"]) =
                Len(SelectSeq(DevicePresetsOf(p.elem), WrapsDevice))

(***************************************************************************)
(* app.py: the temporary directories of /api/analyze, /api/analyze/complete*)
(* and /api/cleanup. Each request runs its handler statement by statement; *)
(* the handlers of several requests run side by side under the threaded    *)
(* development server (server.py falls back to it, app.py line 765) and    *)
(* one after the other under gunicorn with one worker. The decode inside   *)
(* /api/analyze touches nothing the handlers share and is one step here.   *)
(***************************************************************************)
MaxRequests == 3

ALLOWED_EXTENSIONS == { <<"a", "d", "g">>, <<"a", "d", "v">> }

\* str.lower on the letters of the upload names
LowerChar(c) ==
    IF c \in {"A", "D", "G", "V"}
    THEN ("A" :> "a" @@ "D" :> "d" @@ "G" :> "g" @@ "V" :> "v")[c]
    ELSE c

\* line 94
allowed_file(name) ==
    /\ RFind(name, ".") > 0
    /\ LET ext == SubSeq(name, RFind(name, ".") + 1, Len(name))
       IN  [i \in 1..Len(ext) |-> LowerChar(ext[i])] \in ALLOWED_EXTENSIONS

\* "_".join(filename.split()): the words of the name joined by underscores
RECURSIVE JoinWords(_, _, _)
JoinWords(s, started, gap) ==
    IF s = <<>> THEN <<>>
    ELSE IF Head(s) = " " THEN JoinWords(Tail(s), started, started)
    ELSE (IF gap THEN <<"_">> ELSE <<>>) \o <<Head(s)>> \o JoinWords(Tail(s), TRUE, FALSE)

\* str.strip("._")
RECURSIVE StripDots(_)
StripDots(s) ==
    IF s = <<>> THEN s
    ELSE IF Head(s) \in {".", "_"} THEN StripDots(Tail(s))
    ELSE IF s[Len(s)] \in {".", "_"} THEN StripDots(SubSeq(s, 1, Len(s) - 1))
    ELSE s

\* werkzeug's secure_filename on names of letters, digits, dots, underscores, blanks
\* and slashes: separators become blanks, words are joined, outer dots and underscores go
secure_filename(name) ==
    StripDots(JoinWords([i \in 1..Len(name) |-> IF name[i] = "/" THEN " " ELSE name[i]],
                        FALSE, FALSE))

\* the names uploads come under: none selected, a plain one, one with a directory and
\* the name it is stored as, an upper-case extension, a type that is not allowed
UploadNames ==
    { <<>>,
      <<"r", ".", "a", "d", "g">>,
      <<"d", "/", "r", ".", "a", "d", "g">>,
      <<"d", "_", "r", ".", "a", "d", "g">>,
      <<"r", ".", "A", "D", "V">>,
      <<"r", ".", "x", "m", "l">> }

\* a file that is not gzip, a rack whose macro value is no number, a rack that decodes
CorruptFile == [gzip |-> FALSE, wellformed |-> TRUE, tree |-> Root(<<>>)]

RaisingFile ==
    [gzip |-> TRUE, wellformed |-> TRUE,
     tree |-> RackDoc(E("AudioEffectGroupDevice", NoValue, MacroFields(0, "Cutoff", "loud")),
                      <<BranchPresets(<<SimpleBranch>>)>>)]

GoodFile ==
    [gzip |-> TRUE, wellformed |-> TRUE,
     tree |-> RackDoc(SimpleMain("AudioEffectGroupDevice"), <<BranchPresets(<<SimpleBranch>>)>>)]

UploadFiles == {CorruptFile, RaisingFile, GoodFile}

\* the filenames /api/analyze/complete is sent: those analyses answer with, and the
\* default of line 327
CompleteNames ==
    { secure_filename(n) : n \in {n \in UploadNames : allowed_file(n)} }
    \cup { <<"u", "n", "k", "n", "o", "w", "n">> }

\* no directory
NoDir == 0

\* a request and the locals of its handler
Request(kind, name, f, saved) ==
    [kind |-> kind, pc |-> "start", name |-> name, file |-> f, filename |-> <<>>,
     temp_dir |-> NoDir, saved |-> saved, status |-> 0]

decoder == <<file, filename, verbose, pc, xml_root, rack_info, detected, branches, idx,
             result, raised, stdout, other>>

\* the decoder at rest beside the server
AppInit ==
    /\ file = GoodFile
    /\ filename = DefaultFilename
    /\ verbose = FALSE
    /\ pc = "start"
    /\ xml_root = None
    /\ rack_info = NoResult
    /\ detected = NotDetected
    /\ branches = <<>>
    /\ idx = 0
    /\ result = NoResult
    /\ raised = ""
    /\ stdout = <<>>
    /\ other = NoFrame
    /\ ServerIdle

\* a request arrives
AnalyzeRequest ==
    /\ Len(requests) < MaxRequests
    /\ \E name \in UploadNames, f \in UploadFiles :
          requests' = Append(requests, Request("analyze", name, f, FALSE))
    /\ UNCHANGED <<decoder, disk, temp_dirs>>

CompleteRequest ==
    /\ Len(requests) < MaxRequests
    /\ \E name \in CompleteNames, saved \in BOOLEAN :
          requests' = Append(requests, Request("complete", name, GoodFile, saved))
    /\ UNCHANGED <<decoder, disk, temp_dirs>>

CleanupRequest ==
    /\ Len(requests) < MaxRequests
    /\ requests' = Append(requests, Request("cleanup", <<>>, GoodFile, FALSE))
    /\ UNCHANGED <<decoder, disk, temp_dirs>>

\* the handler of request r is at label at
At(r, kind, at) == requests[r].kind = kind /\ requests[r].pc = at

\* the handler of request r returns
Returns(r, status) == [requests EXCEPT ![r].pc = "done", ![r].status = status]

\* lines 243-259: the checks of the upload, then tempfile.mkdtemp(), which makes a
\* directory no other request has
AnalyzeBegin ==
    \E r \in DOMAIN requests :
        /\ At(r, "analyze", "start")
        /\ IF requests[r].name = <<>> \/ ~allowed_file(requests[r].name)
           THEN /\ requests' = Returns(r, 400)
                /\ UNCHANGED disk
           ELSE /\ requests' = [requests EXCEPT ![r].pc = "decode", ![r].temp_dir = r]
                /\ disk' = disk \cup {r}
        /\ UNCHANGED <<decoder, temp_dirs>>

\* shutil.rmtree(temp_dir, ignore_errors=True)
rmtree(dirs, temp_dir) == dirs \ {temp_dir}

\* lines 261-283 and 312-315: the file is saved and decoded; a file that does not
\* decompress returns from inside the try block, an exception reaches the handler's
\* except clause, which removes the directory
AnalyzeDecode ==
    \E r \in DOMAIN requests :
        /\ At(r, "analyze", "decode")
        /\ LET name == secure_filename(requests[r].name)
               decoded == DecodeAlone(requests[r].file, name, FALSE)
           IN  IF decoded.pc = "failed"
               THEN /\ requests' = [Returns(r, 500) EXCEPT ![r].filename = name]
                    /\ UNCHANGED disk
               ELSE IF decoded.pc = "raised"
               THEN /\ requests' = [Returns(r, 500) EXCEPT ![r].filename = name]
                    /\ disk' = rmtree(disk, requests[r].temp_dir)
               ELSE /\ requests' = [requests EXCEPT ![r].pc = "hasattr", ![r].filename = name]
                    /\ UNCHANGED disk
        /\ UNCHANGED <<decoder, temp_dirs>>

\* line 306
AnalyzeHasattr ==
    \E r \in DOMAIN requests :
        /\ At(r, "analyze", "hasattr")
        /\ requests' = [requests EXCEPT ![r].pc = IF temp_dirs.hasattr THEN "store" ELSE "create"]
        /\ UNCHANGED <<decoder, disk, temp_dirs>>

\* line 307
AnalyzeCreate ==
    \E r \in DOMAIN requests :
        /\ At(r, "analyze", "create")
        /\ temp_dirs' = [hasattr |-> TRUE, dict |-> <<>>]
        /\ requests' = [requests EXCEPT ![r].pc = "store"]
        /\ UNCHANGED <<decoder, disk>>

\* lines 308-310
AnalyzeStore ==
    \E r \in DOMAIN requests :
        /\ At(r, "analyze", "store")
        /\ temp_dirs' = [temp_dirs EXCEPT !.dict = Put(@, requests[r].filename, requests[r].temp_dir)]
        /\ requests' = Returns(r, 200)
        /\ UNCHANGED <<decoder, disk>>

\* lines 364-374 and 379-384: the analysis is saved to the database, or is not
CompleteSave ==
    \E r \in DOMAIN requests :
        /\ At(r, "complete", "start")
        /\ requests' = IF requests[r].saved
                       THEN [requests EXCEPT ![r].pc = "lookup", ![r].filename = requests[r].name]
                       ELSE Returns(r, 500)
        /\ UNCHANGED <<decoder, disk, temp_dirs>>

\* line 376
CompleteLookup ==
    \E r \in DOMAIN requests :
        /\ At(r, "complete", "lookup")
        /\ requests' = IF temp_dirs.hasattr /\ Has(temp_dirs.dict, requests[r].filename)
                       THEN [requests EXCEPT ![r].pc = "rmtree"]
                       ELSE Returns(r, 200)
        /\ UNCHANGED <<decoder, disk, temp_dirs>>

\* line 377; the key may be gone by now: KeyError, caught at line 382
CompleteRmtree ==
    \E r \in DOMAIN requests :
        /\ At(r, "complete", "rmtree")
        /\ IF Has(temp_dirs.dict, requests[r].filename)
           THEN /\ disk' = rmtree(disk, temp_dirs.dict[requests[r].filename])
                /\ requests' = [requests EXCEPT ![r].pc = "del"]
           ELSE /\ requests' = Returns(r, 500)
                /\ UNCHANGED disk
        /\ UNCHANGED <<decoder, temp_dirs>>

\* del d[k]
Del(d, k) == [x \in (DOMAIN d) \ {k} |-> d[x]]

\* line 378
CompleteDel ==
    \E r \in DOMAIN requests :
        /\ At(r, "complete", "del")
        /\ IF Has(temp_dirs.dict, requests[r].filename)
           THEN /\ temp_dirs' = [temp_dirs EXCEPT !.dict = Del(@, requests[r].filename)]
                /\ requests' = Returns(r, 200)
           ELSE /\ requests' = Returns(r, 500)
                /\ UNCHANGED temp_dirs
        /\ UNCHANGED <<decoder, disk>>

\* lines 607-608: every directory the dictionary names is removed
CleanupRemove ==
    \E r \in DOMAIN requests :
        /\ At(r, "cleanup", "start")
        /\ disk' = disk \ {temp_dirs.dict[k] : k \in DOMAIN temp_dirs.dict}
        /\ requests' = [requests EXCEPT ![r].pc = "reset"]
        /\ UNCHANGED <<decoder, temp_dirs>>

\* lines 609-611
CleanupReset ==
    \E r \in DOMAIN requests :
        /\ At(r, "cleanup", "reset")
        /\ temp_dirs' = [hasattr |-> TRUE, dict |-> <<>>]
        /\ requests' = Returns(r, 200)
        /\ UNCHANGED <<decoder, disk>>

AppNext ==
    \/ AnalyzeRequest \/ CompleteRequest \/ CleanupRequest
    \/ AnalyzeBegin \/ AnalyzeDecode \/ AnalyzeHasattr \/ AnalyzeCreate \/ AnalyzeStore
    \/ CompleteSave \/ CompleteLookup \/ CompleteRmtree \/ CompleteDel
    \/ CleanupRemove \/ CleanupReset

AppSpec == AppInit /\ [][AppNext]_vars

\* the directories app.temp_dirs names
Recorded == { temp_dirs.dict[k] : k \in DOMAIN temp_dirs.dict }

(***************************************************************************)
(* C30: once an /api/analyze request has returned, the directory it made   *)
(* is recorded in app.temp_dirs or exists no longer.                       *)
(***************************************************************************)
C30_NoOrphanDirectory ==
    \A r \in DOMAIN requests :
        (At(r, "analyze", "done") /\ requests[r].temp_dir # NoDir) =>
            (requests[r].temp_dir \in Recorded \/ requests[r].temp_dir \notin disk)

====
